---- MODULE Spec2Model ----
(***************************************************************************)
(* A model of kiba, an in-memory key-value server.                         *)
(*                                                                         *)
(*   - the data store        (src/src/store.rs,  StdStore)                 *)
(*   - the executor          (src/src/ksp.rs,    execute and the f_* body  *)
(*                            formats)                                     *)
(*   - the request parser    (src/src/parser.rs, parse / validate)         *)
(*   - the coordinator       (src/src/server.rs, start_server: one         *)
(*                            executor task, one task per connection, a    *)
(*                            bounded mpsc channel and one oneshot reply   *)
(*                            pipe per message)                            *)
(*                                                                         *)
(* Text is modelled as a sequence of characters (one-character strings),   *)
(* so that parsing and formatting are computed and not assumed.  Response  *)
(* bodies are joined into strings.  A 64-bit integer is kept in sign and   *)
(* magnitude form with decimal digits, and its range is the real one,      *)
(* -9223372036854775808 .. 9223372036854775807.                            *)
(***************************************************************************)
EXTENDS Integers, Sequences, FiniteSets, TLC

VARIABLES
    build,      \* "debug" or "release": the profile the binary was built with
    cbound,     \* config.cbound, the capacity of the channel
    store,      \* the StdStore owned by the executor
    last,       \* Spec only: the store operation applied last, and its result
    nops,       \* Spec only: number of store operations applied so far
    chan,       \* server: the mpsc channel, messages in arrival order
    exstate,    \* server: the executor task, "recv" | "exec" | "panicked" | "exited"
    cur,        \* server: the message the executor has dequeued
    hpc,        \* server: per connection task, its place in the loop
    hreq,       \* server: per connection task, the request parsed last
    pipe,       \* server: per connection task, its oneshot reply pipe
    out,        \* server: per connection, the bodies written to the socket
    sock,       \* server: per connection, "open" | "closed" (the peer has closed,
                \* or shut down its sending side) | "broken" (closed, and a
                \* write has failed)
    nreads,     \* server: number of socket reads performed so far
    sentlog,    \* history: every message that entered the channel, in order
    ndone,      \* history: number of messages the executor has executed
    eofseen,    \* server: per connection, a read reported end-of-stream (or an error)
    listening,  \* server: start_server is in its accept loop and holds tx
    buf,        \* server: per connection task, the buffer it parsed last and
                \* the number of bytes the read before it had delivered
    resp,       \* server: per connection task, the response it took from its
                \* pipe and is writing
    replies     \* history: the body execute returned for every message the
                \* executor has executed, in order

vars == << build, cbound, store, last, nops, chan, exstate, cur, hpc, hreq, pipe,
           out, sock, nreads, sentlog, ndone, eofseen, listening, buf, resp, replies >>

storeVars  == << store, last, nops >>
serverVars == << chan, exstate, cur, hpc, hreq, pipe, out, sock, nreads,
                 sentlog, ndone, eofseen, listening, buf, resp, replies >>

(***************************************************************************)
(* Characters and text                                                     *)
(***************************************************************************)

\* The NUL character (the zero byte of the read buffer), written as a token.
NUL == "<NUL>"

\* A byte that is not valid UTF-8 (0xFF), written as a token.
BadByte == "<FF>"

\* Bytes that are no character where they stand, written as tokens: 0x80
\* and 0x82 continue a sequence, 0xC3 starts a sequence of two bytes and
\* 0xE2 a sequence of three.  A text holds them only where they do not
\* make up a character: a character is always one element of a text.
ContByte80 == "<80>"
ContByte82 == "<82>"
LeadByteC3 == "<C3>"
LeadByteE2 == "<E2>"

ContBytes == { ContByte80, ContByte82 }
InvalidBytes == { BadByte, LeadByteC3, LeadByteE2 } \cup ContBytes

\* Characters outside ASCII, written as tokens of their code points.
LongS == "<U+017F>"
DotlessI == "<U+0131>"
SharpS == "<U+00DF>"
SmallEAcute == "<U+00E9>"
CapitalEAcute == "<U+00C9>"
LigatureSt == "<U+FB06>"
KelvinSign == "<U+212A>"

\* the characters of the property White_Space
AsciiWhite == { "\t", "\n", "<U+000B>", "<U+000C>", "\r", " " }
TwoByteWhite == { "<U+0085>", "<U+00A0>" }
ThreeByteWhite ==
    { "<U+1680>", "<U+2000>", "<U+2001>", "<U+2002>", "<U+2003>", "<U+2004>",
      "<U+2005>", "<U+2006>", "<U+2007>", "<U+2008>", "<U+2009>", "<U+200A>",
      "<U+2028>", "<U+2029>", "<U+202F>", "<U+205F>", "<U+3000>" }

\* the number of bytes of a character in UTF-8 (1 for a byte that is none)
Utf8Len(c) ==
    IF c \in TwoByteWhite \cup { LongS, DotlessI, SharpS, SmallEAcute, CapitalEAcute }
    THEN 2
    ELSE IF c \in ThreeByteWhite \cup { LigatureSt, KelvinSign } THEN 3
    ELSE 1

DigitChars == << "0", "1", "2", "3", "4", "5", "6", "7", "8", "9" >>

LowerChars == << "a", "b", "c", "d", "e", "f", "g", "h", "i", "j", "k", "l", "m",
                 "n", "o", "p", "q", "r", "s", "t", "u", "v", "w", "x", "y", "z" >>

UpperChars == << "A", "B", "C", "D", "E", "F", "G", "H", "I", "J", "K", "L", "M",
                 "N", "O", "P", "Q", "R", "S", "T", "U", "V", "W", "X", "Y", "Z" >>

Range(f) == { f[i] : i \in DOMAIN f }

IsDigit(c) == c \in Range(DigitChars)

DigitVal(c) == (CHOOSE i \in 1..10 : DigitChars[i] = c) - 1

\* char::to_uppercase on the characters of the model's alphabet: the
\* characters c is mapped to (one, or more for a character such as U+00DF)
UpperChar(c) ==
    IF c \in Range(LowerChars)
    THEN << UpperChars[CHOOSE i \in 1..26 : LowerChars[i] = c] >>
    ELSE IF c = LongS THEN << "S" >>
    ELSE IF c = DotlessI THEN << "I" >>
    ELSE IF c = SharpS THEN << "S", "S" >>
    ELSE IF c = LigatureSt THEN << "S", "T" >>
    ELSE IF c = SmallEAcute THEN << CapitalEAcute >>
    ELSE << c >>

RECURSIVE Join(_)
\* the String made of the characters of cs
Join(cs) == IF cs = << >> THEN "" ELSE Head(cs) \o Join(Tail(cs))

RECURSIVE to_uppercase(_)
\* str::to_uppercase
to_uppercase(cs) ==
    IF cs = << >> THEN << >> ELSE UpperChar(Head(cs)) \o to_uppercase(Tail(cs))

(***************************************************************************)
(* Option and Result                                                       *)
(***************************************************************************)

None == [tag |-> "None"]
Some(v) == [tag |-> "Some", val |-> v]
Ok(v) == [tag |-> "Ok", val |-> v]
Err(m) == [tag |-> "Err", message |-> m]
\* not a value of Result: the calling task unwinds
Panic(m) == [tag |-> "Panic", message |-> m]

(***************************************************************************)
(* Signed 64-bit integers, in sign and magnitude form.  A magnitude is a   *)
(* sequence of decimal digits, most significant first, without leading     *)
(* zeros (zero is <<0>>).                                                  *)
(***************************************************************************)

I64MaxMag == << 9,2,2,3,3,7,2,0,3,6,8,5,4,7,7,5,8,0,7 >>
I64MinMag == << 9,2,2,3,3,7,2,0,3,6,8,5,4,7,7,5,8,0,8 >>

RECURSIVE StripZeros(_)
StripZeros(m) ==
    IF Len(m) > 1 /\ Head(m) = 0 THEN StripZeros(Tail(m)) ELSE m

RECURSIVE MagLexLe(_, _)
\* a <= b for magnitudes of equal length
MagLexLe(a, b) ==
    IF a = << >> THEN TRUE
    ELSE IF Head(a) # Head(b) THEN Head(a) < Head(b)
    ELSE MagLexLe(Tail(a), Tail(b))

MagLe(a, b) ==
    IF Len(a) # Len(b) THEN Len(a) < Len(b) ELSE MagLexLe(a, b)

RECURSIVE PadTo(_, _)
PadTo(m, n) == IF Len(m) >= n THEN m ELSE PadTo(<< 0 >> \o m, n)

RECURSIVE AddDigits(_, _, _)
\* a + b + carry for magnitudes of equal length; the result has one more digit
AddDigits(a, b, carry) ==
    IF a = << >> THEN << carry >>
    ELSE LET n == Len(a)
             s == a[n] + b[n] + carry
         IN  AddDigits(SubSeq(a, 1, n - 1), SubSeq(b, 1, n - 1), s \div 10)
                 \o << s % 10 >>

MagAdd(a, b) ==
    LET n == IF Len(a) > Len(b) THEN Len(a) ELSE Len(b)
    IN  StripZeros(AddDigits(PadTo(a, n), PadTo(b, n), 0))

RECURSIVE SubDigits(_, _, _)
\* a - b - borrow for magnitudes of equal length with a >= b
SubDigits(a, b, borrow) ==
    IF a = << >> THEN << >>
    ELSE LET n == Len(a)
             d == a[n] - b[n] - borrow
         IN  SubDigits(SubSeq(a, 1, n - 1), SubSeq(b, 1, n - 1),
                       IF d < 0 THEN 1 ELSE 0)
                 \o << IF d < 0 THEN d + 10 ELSE d >>

MagSub(a, b) ==
    LET n == Len(a) IN StripZeros(SubDigits(a, PadTo(b, n), 0))

\* an integer value; zero is never negative
Int64(neg, mag) == [neg |-> neg /\ mag # << 0 >>, mag |-> mag]

I64_MIN == Int64(TRUE, I64MinMag)
I64_MAX == Int64(FALSE, I64MaxMag)

InI64(v) == IF v.neg THEN MagLe(v.mag, I64MinMag) ELSE MagLe(v.mag, I64MaxMag)

\* the mathematical sum of two integer values
IntAdd(a, b) ==
    IF a.neg = b.neg THEN Int64(a.neg, MagAdd(a.mag, b.mag))
    ELSE IF MagLe(b.mag, a.mag) THEN Int64(a.neg, MagSub(a.mag, b.mag))
    ELSE Int64(b.neg, MagSub(b.mag, a.mag))

\* an addition that does not look at the range of the sum
unchecked_add(a, b) == Some(IntAdd(a, b))

\* i64::checked_add
checked_add(a, b) ==
    LET s == IntAdd(a, b) IN IF InI64(s) THEN Some(s) ELSE None

\* the unary minus of i64: -i64::MIN overflows, which panics in a build with
\* overflow checks (debug) and wraps to i64::MIN without them (release)
i64_neg(d) ==
    IF d = I64_MIN
    THEN IF build = "debug"
         THEN Panic("attempt to negate with overflow")
         ELSE Ok(I64_MIN)
    ELSE Ok(Int64(~d.neg, d.mag))

\* <i64 as FromStr>::from_str: an optional sign, then one or more decimal
\* digits, read from the left; the first error ends the reading, so digits
\* that leave the range before a character that is no digit give the
\* overflow
parse_i64(cs) ==
    IF cs = << >> THEN Err("Empty")
    ELSE LET signed == Head(cs) \in {"+", "-"}
             digits == IF signed THEN Tail(cs) ELSE cs
             bad == { i \in 1..Len(digits) : ~IsDigit(digits[i]) }
             n == IF bad = {} THEN Len(digits)
                  ELSE (CHOOSE i \in bad : \A j \in bad : i <= j) - 1
             mag == StripZeros([i \in 1..n |-> DigitVal(digits[i])])
             v == Int64(Head(cs) = "-", mag)
         IN  IF digits = << >> THEN Err("InvalidDigit")
             ELSE IF n > 0 /\ ~InI64(v)
             THEN (IF Head(cs) = "-" THEN Err("NegOverflow") ELSE Err("PosOverflow"))
             ELSE IF bad # {} THEN Err("InvalidDigit")
             ELSE Ok(v)

\* <i64 as ToString>::to_string, as characters
i64_to_string(v) ==
    (IF v.neg THEN << "-" >> ELSE << >>)
        \o [i \in 1..Len(v.mag) |-> DigitChars[v.mag[i] + 1]]

RECURSIVE u64_to_string(_)
\* <u64 as ToString>::to_string for the small lengths of the model
u64_to_string(n) ==
    IF n < 10 THEN << DigitChars[n + 1] >>
    ELSE u64_to_string(n \div 10) \o << DigitChars[(n % 10) + 1] >>

(***************************************************************************)
(* The data store: StdStore and its operations.  Every operation takes the *)
(* store and yields the store after it and the Result it returns.          *)
(***************************************************************************)

EmptyMap == << >>

\* HashMap::insert / the write through get_mut
Put(m, k, v) == [x \in (DOMAIN m) \cup {k} |-> IF x = k THEN v ELSE m[x]]

\* HashMap::remove
Del(m, k) == [x \in (DOMAIN m) \ {k} |-> m[x]]

Has(m, k) == k \in DOMAIN m

Ret(s, r) == [store |-> s, res |-> r]

\* Store::new for StdStore
new ==
    [namespace |-> EmptyMap, strings |-> EmptyMap, lists |-> EmptyMap,
     hashes |-> EmptyMap, sets |-> EmptyMap]

\* StdStore::validate_type; no operation of the store calls it, and no
\* operation writes namespace
validate_type(s, key, expected) ==
    LET actual == IF Has(s.namespace, key) THEN Some(s.namespace[key]) ELSE None
    IN  actual = None \/ actual = Some(expected)

update_int(s, key, delta) ==
    IF Has(s.strings, key)
    THEN LET parsed == parse_i64(s.strings[key])
         IN  IF parsed.tag = "Ok"
             THEN LET check == checked_add(parsed.val, delta)
                  IN  IF check.tag = "Some"
                      THEN Ret([s EXCEPT !.strings =
                                    Put(@, key, i64_to_string(check.val))],
                               Ok(check.val))
                      ELSE Ret(s, Err("Operation would cause integer to go out-of-bounds"))
             ELSE Ret(s, Err("Value stored at key cannot be represented as a 64-bit integer"))
    ELSE Ret(s, Err("Specified key does not exist"))

get(s, key) ==
    IF Has(s.strings, key) THEN Ret(s, Ok(Some(s.strings[key])))
    ELSE Ret(s, Ok(None))

\* a set that returns the value it has just written
set_returns_new(s, key, val) ==
    Ret([s EXCEPT !.strings = Put(@, key, val)], Ok(Some(val)))

set(s, key, val) ==
    Ret([s EXCEPT !.strings = Put(@, key, val)],
        IF Has(s.strings, key) THEN Ok(Some(s.strings[key])) ELSE Ok(None))

incr(s, key) == update_int(s, key, Int64(FALSE, << 1 >>))

decr(s, key) == update_int(s, key, Int64(TRUE, << 1 >>))

incrby(s, key, delta) == update_int(s, key, delta)

decrby(s, key, delta) ==
    LET negated == i64_neg(delta)
    IN  IF negated.tag = "Panic" THEN Ret(s, negated)
        ELSE update_int(s, key, negated.val)

\* an lpush that makes the key a list alone: it takes the key out of the
\* other mappings
lpush_taking_over(s, key, val) ==
    LET list == << val >> \o (IF Has(s.lists, key) THEN s.lists[key] ELSE << >>)
    IN  Ret([s EXCEPT !.lists = Put(@, key, list),
                      !.strings = Del(@, key),
                      !.sets = Del(@, key),
                      !.hashes = Del(@, key)],
            Ok(Len(list)))

lpush(s, key, val) ==
    IF Has(s.lists, key)
    THEN LET list == << val >> \o s.lists[key]
         IN  Ret([s EXCEPT !.lists = Put(@, key, list)], Ok(Len(list)))
    ELSE Ret([s EXCEPT !.lists = Put(@, key, << val >>)], Ok(1))

rpush(s, key, val) ==
    IF Has(s.lists, key)
    THEN LET list == s.lists[key] \o << val >>
         IN  Ret([s EXCEPT !.lists = Put(@, key, list)], Ok(Len(list)))
    ELSE Ret([s EXCEPT !.lists = Put(@, key, << val >>)], Ok(1))

\* an lpop that removes the list from the mapping when it becomes empty
lpop_removing_empty(s, key) ==
    IF Has(s.lists, key)
    THEN LET list == s.lists[key]
         IN  IF list = << >> THEN Ret(s, Ok(None))
             ELSE IF Len(list) = 1
             THEN Ret([s EXCEPT !.lists = Del(@, key)], Ok(Some(Head(list))))
             ELSE Ret([s EXCEPT !.lists = Put(@, key, Tail(list))],
                      Ok(Some(Head(list))))
    ELSE Ret(s, Ok(None))

lpop(s, key) ==
    IF Has(s.lists, key)
    THEN LET list == s.lists[key]
         IN  IF list = << >> THEN Ret(s, Ok(None))
             ELSE Ret([s EXCEPT !.lists = Put(@, key, Tail(list))],
                      Ok(Some(Head(list))))
    ELSE Ret(s, Ok(None))

\* an rpop that takes the head of the list
rpop_front(s, key) ==
    IF Has(s.lists, key)
    THEN LET list == s.lists[key]
         IN  IF list = << >> THEN Ret(s, Ok(None))
             ELSE Ret([s EXCEPT !.lists = Put(@, key, Tail(list))],
                      Ok(Some(Head(list))))
    ELSE Ret(s, Ok(None))

rpop(s, key) ==
    IF Has(s.lists, key)
    THEN LET list == s.lists[key]
         IN  IF list = << >> THEN Ret(s, Ok(None))
             ELSE Ret([s EXCEPT !.lists =
                           Put(@, key, SubSeq(list, 1, Len(list) - 1))],
                      Ok(Some(list[Len(list)])))
    ELSE Ret(s, Ok(None))

\* an sadd that returns the number of members it added
sadd_count_added(s, key, val) ==
    IF Has(s.sets, key)
    THEN Ret([s EXCEPT !.sets = Put(@, key, s.sets[key] \cup {val})],
             Ok(IF val \in s.sets[key] THEN 0 ELSE 1))
    ELSE Ret([s EXCEPT !.sets = Put(@, key, {val})], Ok(1))

sadd(s, key, val) ==
    IF Has(s.sets, key)
    THEN LET members == s.sets[key] \cup {val}
         IN  Ret([s EXCEPT !.sets = Put(@, key, members)], Ok(Cardinality(members)))
    ELSE Ret([s EXCEPT !.sets = Put(@, key, {val})], Ok(1))

\* an srem that returns the number of members it removed
srem_count_removed(s, key, val) ==
    IF Has(s.sets, key)
    THEN Ret([s EXCEPT !.sets = Put(@, key, s.sets[key] \ {val})],
             Ok(IF val \in s.sets[key] THEN 1 ELSE 0))
    ELSE Ret(s, Ok(0))

srem(s, key, val) ==
    IF Has(s.sets, key)
    THEN LET members == s.sets[key] \ {val}
         IN  Ret([s EXCEPT !.sets = Put(@, key, members)], Ok(Cardinality(members)))
    ELSE Ret(s, Ok(0))

\* a sismember that makes the set it looks into
sismember_creating(s, key, val) ==
    IF Has(s.sets, key) THEN Ret(s, Ok(val \in s.sets[key]))
    ELSE Ret([s EXCEPT !.sets = Put(@, key, { })], Ok(FALSE))

sismember(s, key, val) ==
    IF Has(s.sets, key) THEN Ret(s, Ok(val \in s.sets[key]))
    ELSE Ret(s, Ok(FALSE))

\* every order in which the members of a HashSet can be iterated
Orders(members) ==
    { v \in [1..Cardinality(members) -> members] :
        \A i, j \in 1..Cardinality(members) : v[i] = v[j] => i = j }

\* StdStore::smembers, given the order in which the HashSet is iterated;
\* order is one of Orders(the set at key)
smembers(s, key, order) ==
    IF Has(s.sets, key) THEN Ret(s, Ok(order)) ELSE Ret(s, Ok(<< >>))

hget(s, key, field) ==
    IF Has(s.hashes, key)
    THEN IF Has(s.hashes[key], field)
         THEN Ret(s, Ok(Some(s.hashes[key][field])))
         ELSE Ret(s, Ok(None))
    ELSE Ret(s, Ok(None))

\* an hset that replaces the hash by one that holds the field alone
hset_fresh_hash(s, key, field, val) ==
    Ret([s EXCEPT !.hashes = Put(@, key, Put(EmptyMap, field, val))],
        IF Has(s.hashes, key) /\ Has(s.hashes[key], field)
        THEN Ok(Some(s.hashes[key][field])) ELSE Ok(None))

hset(s, key, field, val) ==
    IF Has(s.hashes, key)
    THEN LET hash == s.hashes[key]
         IN  Ret([s EXCEPT !.hashes = Put(@, key, Put(hash, field, val))],
                 Ok(IF Has(hash, field) THEN Some(hash[field]) ELSE None))
    ELSE Ret([s EXCEPT !.hashes = Put(@, key, Put(EmptyMap, field, val))],
             Ok(None))

\* an hdel that removes the hash with its last field
hdel_removing_empty(s, key, field) ==
    IF Has(s.hashes, key) /\ Has(s.hashes[key], field)
    THEN IF DOMAIN s.hashes[key] = { field }
         THEN Ret([s EXCEPT !.hashes = Del(@, key)], Ok(1))
         ELSE Ret([s EXCEPT !.hashes = Put(@, key, Del(s.hashes[key], field))],
                  Ok(1))
    ELSE Ret(s, Ok(0))

hdel(s, key, field) ==
    IF Has(s.hashes, key)
    THEN LET hash == s.hashes[key]
         IN  IF Has(hash, field)
             THEN Ret([s EXCEPT !.hashes = Put(@, key, Del(hash, field))], Ok(1))
             ELSE Ret(s, Ok(0))
    ELSE Ret(s, Ok(0))

(***************************************************************************)
(* Requests, response bodies and the executor's dispatch.                  *)
(***************************************************************************)

f_pong == "PONG"

f_ok == "OK"

f_nil == "(nil)"

f_noop == NUL

f_empty == "(empty list or set)"

f_int(int) == "(integer) " \o Join(i64_to_string(int))

f_uint(uint) == "(integer) " \o Join(u64_to_string(uint))

\* an f_str without the quotation marks
f_str_unquoted(str) == Join(str)

f_str(str) == "\"" \o Join(str) \o "\""

RECURSIVE f_vec_from(_, _)
f_vec_from(v, idx) ==
    IF idx > Len(v) THEN ""
    ELSE Join(u64_to_string(idx)) \o ") " \o Join(v[idx]) \o "\n"
             \o f_vec_from(v, idx + 1)

RECURSIVE f_vec_zero_from(_, _)
f_vec_zero_from(v, idx) ==
    IF idx > Len(v) THEN ""
    ELSE Join(u64_to_string(idx - 1)) \o ") " \o Join(v[idx]) \o "\n"
             \o f_vec_zero_from(v, idx + 1)

\* an f_vec that numbers the lines from 0 (idx in the place of idx + 1)
f_vec_zero_based(v) == f_vec_zero_from(v, 1)

f_vec(v) == f_vec_from(v, 1)

\* the error format of the first server (main.rs), in the place of f_err
f_err_legacy(e) == "ERROR: " \o e

f_err(e) == "(error) " \o e

\* what a call of execute yields: the store after it and the Response, or
\* the unwinding of the executor task
Resp(s, body) == [store |-> s, panic |-> FALSE, body |-> body]
Unwind(s) == [store |-> s, panic |-> TRUE, body |-> ""]

\* the orders in which smembers may enumerate, for a request and a store
ExecOrders(req, s) ==
    IF req.op = "SMembers" /\ Has(s.sets, req.key)
    THEN Orders(s.sets[req.key])
    ELSE { << >> }

OfInt(r) ==
    IF r.res.tag = "Panic" THEN Unwind(r.store)
    ELSE IF r.res.tag = "Ok" THEN Resp(r.store, f_int(r.res.val))
    ELSE Resp(r.store, f_err(r.res.message))

OfOption(r) ==
    IF r.res.val.tag = "Some" THEN Resp(r.store, f_str(r.res.val.val))
    ELSE Resp(r.store, f_nil)

\* execute; order is the iteration order smembers meets (ExecOrders)
execute(req, s, order) ==
    CASE req.op = "Ping" -> Resp(s, f_pong)
      [] req.op = "Get" -> OfOption(get(s, req.key))
      [] req.op = "Set" -> Resp(set(s, req.key, req.val).store, f_ok)
      [] req.op = "Incr" -> OfInt(incr(s, req.key))
      [] req.op = "Decr" -> OfInt(decr(s, req.key))
      [] req.op = "IncrBy" -> OfInt(incrby(s, req.key, req.delta))
      [] req.op = "DecrBy" -> OfInt(decrby(s, req.key, req.delta))
      [] req.op = "LPush" ->
            LET r == lpush(s, req.key, req.val) IN Resp(r.store, f_uint(r.res.val))
      [] req.op = "RPush" ->
            LET r == rpush(s, req.key, req.val) IN Resp(r.store, f_uint(r.res.val))
      [] req.op = "LPop" -> OfOption(lpop(s, req.key))
      [] req.op = "RPop" -> OfOption(rpop(s, req.key))
      [] req.op = "SAdd" ->
            LET r == sadd(s, req.key, req.val) IN Resp(r.store, f_uint(r.res.val))
      [] req.op = "SRem" ->
            LET r == srem(s, req.key, req.val) IN Resp(r.store, f_uint(r.res.val))
      [] req.op = "SIsMember" ->
            LET r == sismember(s, req.key, req.val)
            IN  IF r.res.val THEN Resp(r.store, f_uint(1)) ELSE Resp(r.store, f_uint(0))
      [] req.op = "SMembers" ->
            LET r == smembers(s, req.key, order)
            IN  IF Len(r.res.val) = 0 THEN Resp(r.store, f_empty)
                ELSE Resp(r.store, f_vec(r.res.val))
      [] req.op = "HGet" -> OfOption(hget(s, req.key, req.field))
      [] req.op = "HSet" ->
            LET r == hset(s, req.key, req.field, req.val)
            IN  IF r.res.val.tag = "Some" THEN Resp(r.store, f_uint(0))
                ELSE Resp(r.store, f_uint(1))
      [] req.op = "HDel" ->
            LET r == hdel(s, req.key, req.field) IN Resp(r.store, f_uint(r.res.val))
      [] req.op = "NoOp" -> Resp(s, f_noop)
      [] req.op = "Invalid" -> Resp(s, f_err(req.error))

(***************************************************************************)
(* The request parser.                                                     *)
(***************************************************************************)

\* char::is_whitespace: the characters it is true of
WhiteChars == AsciiWhite \cup TwoByteWhite \cup ThreeByteWhite

\* the separator of parse: c.is_whitespace() || c == '\u{0}'
IsSeparator(c) == c \in WhiteChars \/ c = NUL

\* std::str::from_utf8(bytes).is_ok()
IsUtf8(bytes) == \A i \in 1..Len(bytes) : bytes[i] \notin InvalidBytes

RECURSIVE ByteLen(_)
\* the number of bytes of a text
ByteLen(text) == IF text = << >> THEN 0 ELSE Utf8Len(Head(text)) + ByteLen(Tail(text))

\* the Utf8Error of bytes that are not UTF-8: the number of bytes before
\* the first sequence that is none, and the length of that sequence (None
\* when the input ends inside a sequence that could go on)
Utf8Error(bytes) ==
    LET i == CHOOSE j \in 1..Len(bytes) :
                 /\ bytes[j] \in InvalidBytes
                 /\ \A h \in 1..(j - 1) : bytes[h] \notin InvalidBytes
        IsCont(j) == j <= Len(bytes) /\ bytes[j] \in ContBytes
        error_len ==
            IF bytes[i] = LeadByteC3
            THEN (IF i = Len(bytes) THEN "None" ELSE "Some(1)")
            ELSE IF bytes[i] = LeadByteE2
            THEN (IF i = Len(bytes) THEN "None"
                  ELSE IF ~IsCont(i + 1) THEN "Some(1)"
                  ELSE IF i + 1 = Len(bytes) THEN "None"
                  ELSE "Some(2)")
            ELSE "Some(1)"
    IN  [valid_up_to |-> ByteLen(SubSeq(bytes, 1, i - 1)), error_len |-> error_len]

\* the panic message of Result::unwrap on Err(Utf8Error); the grave accents
\* of the message are written <U+0060>
Utf8PanicMessage(e) ==
    "called <U+0060>Result::unwrap()<U+0060> on an <U+0060>Err<U+0060> value: "
        \o "Utf8Error { valid_up_to: " \o Join(u64_to_string(e.valid_up_to))
        \o ", error_len: " \o e.error_len \o " }"

RECURSIVE SplitFrom(_, _, _)
\* text.split(separator).filter(|s| !s.is_empty()), reading text from i with
\* the characters of the chunk under way in acc
SplitFrom(text, i, acc) ==
    IF i > Len(text) THEN (IF acc = << >> THEN << >> ELSE << acc >>)
    ELSE IF IsSeparator(text[i])
    THEN (IF acc = << >> THEN << >> ELSE << acc >>) \o SplitFrom(text, i + 1, << >>)
    ELSE SplitFrom(text, i + 1, Append(acc, text[i]))

Chunks(text) == SplitFrom(text, 1, << >>)

Operator(family, op) == [family |-> family, op |-> op]

\* the keyword match of parse
Keyword(word) ==
    CASE word = "PING" -> Operator("MiscOp", "Ping")
      [] word = "GET" -> Operator("StringOp", "Get")
      [] word = "SET" -> Operator("StringOp", "Set")
      [] word = "INCR" -> Operator("StringOp", "Incr")
      [] word = "DECR" -> Operator("StringOp", "Decr")
      [] word = "INCRBY" -> Operator("StringOp", "IncrBy")
      [] word = "DECRBY" -> Operator("StringOp", "DecrBy")
      [] word = "LPUSH" -> Operator("ListOp", "LPush")
      [] word = "RPUSH" -> Operator("ListOp", "RPush")
      [] word = "LPOP" -> Operator("ListOp", "LPop")
      [] word = "RPOP" -> Operator("ListOp", "RPop")
      [] word = "SADD" -> Operator("SetOp", "SAdd")
      [] word = "SREM" -> Operator("SetOp", "SRem")
      [] word = "SISMEMBER" -> Operator("SetOp", "SIsMember")
      [] word = "SMEMBERS" -> Operator("SetOp", "SMembers")
      [] word = "HGET" -> Operator("HashOp", "HGet")
      [] word = "HSET" -> Operator("HashOp", "HSet")
      [] word = "HDEL" -> Operator("HashOp", "HDel")
      [] word = "QUIT" -> Operator("MetaOp", "Quit")
      [] OTHER -> Operator("MetaOp", "Unrecognized")

\* a ParserResult that starts from the unrecognized operator
ParserResult_unrecognized == [op |-> Operator("MetaOp", "Unrecognized"), argv |-> << >>]

\* ParserResult::new
ParserResult_new == [op |-> Operator("MetaOp", "NoOp"), argv |-> << >>]

\* a parse that folds the case of the whole text, not of the first chunk
parse_folding_text(bytes) ==
    LET chunks == Chunks(to_uppercase(bytes))
    IN  IF chunks = << >> THEN ParserResult_new
        ELSE [op |-> Keyword(Join(Head(chunks))), argv |-> Tail(chunks)]

\* parse, for bytes that are valid UTF-8
parse(bytes) ==
    LET chunks == Chunks(bytes)
    IN  IF chunks = << >> THEN ParserResult_new
        ELSE [op |-> Keyword(Join(to_uppercase(Head(chunks)))),
              argv |-> Tail(chunks)]

Invalid(error) == [op |-> "Invalid", error |-> error]

\* the message with the two counts in each other's place
invalid_argc_swapped(expected, actual) ==
    Invalid("Unexpected number of arguments. Expected "
                \o Join(u64_to_string(actual)) \o ", got "
                \o Join(u64_to_string(expected)))

invalid_argc_request(expected, actual) ==
    Invalid("Unexpected number of arguments. Expected "
                \o Join(u64_to_string(expected)) \o ", got "
                \o Join(u64_to_string(actual)))

KeyReq(op, argv) ==
    IF Len(argv) # 1 THEN invalid_argc_request(1, Len(argv))
    ELSE [op |-> op, key |-> argv[1]]

KeyValReq(op, argv) ==
    IF Len(argv) # 2 THEN invalid_argc_request(2, Len(argv))
    ELSE [op |-> op, key |-> argv[1], val |-> argv[2]]

KeyFieldReq(op, argv) ==
    IF Len(argv) # 2 THEN invalid_argc_request(2, Len(argv))
    ELSE [op |-> op, key |-> argv[1], field |-> argv[2]]

\* the coercion of the second argument checked before the number of
\* arguments
KeyDeltaReq_coerce_first(op, argv, error) ==
    IF Len(argv) >= 2 /\ parse_i64(argv[2]).tag # "Ok" THEN Invalid(error)
    ELSE IF Len(argv) # 2 THEN invalid_argc_request(2, Len(argv))
    ELSE [op |-> op, key |-> argv[1], delta |-> parse_i64(argv[2]).val]

KeyDeltaReq(op, argv, error) ==
    IF Len(argv) # 2 THEN invalid_argc_request(2, Len(argv))
    ELSE LET delta == parse_i64(argv[2])
         IN  IF delta.tag = "Ok"
             THEN [op |-> op, key |-> argv[1], delta |-> delta.val]
             ELSE Invalid(error)

validate_misc_op(op, argv) ==
    IF Len(argv) # 0 THEN invalid_argc_request(0, Len(argv))
    ELSE [op |-> "Ping"]

validate_string_op(op, argv) ==
    CASE op = "Get" -> KeyReq("Get", argv)
      [] op = "Set" -> KeyValReq("Set", argv)
      [] op = "Incr" -> KeyReq("Incr", argv)
      [] op = "Decr" -> KeyReq("Decr", argv)
      [] op = "IncrBy" ->
            KeyDeltaReq("IncrBy", argv, "Value to increment by is a non-integer")
      [] op = "DecrBy" ->
            KeyDeltaReq("DecrBy", argv, "Value to decrement by is a non-integer")

validate_list_op(op, argv) ==
    CASE op = "LPush" -> KeyValReq("LPush", argv)
      [] op = "RPush" -> KeyValReq("RPush", argv)
      [] op = "LPop" -> KeyReq("LPop", argv)
      [] op = "RPop" -> KeyReq("RPop", argv)

validate_set_op(op, argv) ==
    CASE op = "SAdd" -> KeyValReq("SAdd", argv)
      [] op = "SRem" -> KeyValReq("SRem", argv)
      [] op = "SIsMember" -> KeyValReq("SIsMember", argv)
      [] op = "SMembers" -> KeyReq("SMembers", argv)

validate_hash_op(op, argv) ==
    CASE op = "HGet" -> KeyFieldReq("HGet", argv)
      [] op = "HSet" ->
            IF Len(argv) # 3 THEN invalid_argc_request(3, Len(argv))
            ELSE [op |-> "HSet", key |-> argv[1], field |-> argv[2], val |-> argv[3]]
      [] op = "HDel" -> KeyFieldReq("HDel", argv)

\* a validate_meta_op that counts the arguments first
validate_meta_op_counting(op, argv) ==
    IF Len(argv) # 0 THEN invalid_argc_request(0, Len(argv))
    ELSE CASE op = "NoOp" -> [op |-> "NoOp"]
           [] op = "Quit" -> [op |-> "Quit"]
           [] op = "Unrecognized" -> Invalid("Unrecognized operator")

validate_meta_op(op, argv) ==
    CASE op = "NoOp" -> [op |-> "NoOp"]
      [] op = "Quit" -> [op |-> "Quit"]
      [] op = "Unrecognized" -> Invalid("Unrecognized operator")

validate(result) ==
    CASE result.op.family = "MiscOp" -> validate_misc_op(result.op.op, result.argv)
      [] result.op.family = "StringOp" -> validate_string_op(result.op.op, result.argv)
      [] result.op.family = "ListOp" -> validate_list_op(result.op.op, result.argv)
      [] result.op.family = "SetOp" -> validate_set_op(result.op.op, result.argv)
      [] result.op.family = "HashOp" -> validate_hash_op(result.op.op, result.argv)
      [] result.op.family = "MetaOp" -> validate_meta_op(result.op.op, result.argv)

\* parse_request: the Request, or the panic of from_utf8(bytes).unwrap()
parse_request(bytes) ==
    IF IsUtf8(bytes) THEN Ok(validate(parse(bytes)))
    ELSE Panic(Utf8PanicMessage(Utf8Error(bytes)))

(***************************************************************************)
(* Bounds and alphabets of the model.                                      *)
(***************************************************************************)

\* Spec: the number of store operations applied to the fresh store
MaxOps == 3

Keys == { << "k" >>, << "j" >> }

Vals == { << "a" >>, << "5" >> }

Fields == { << "f" >>, << "g" >> }

Deltas == { Int64(FALSE, << 1 >>), I64_MAX, I64_MIN }

Builds == { "debug", "release" }

(***************************************************************************)
(* Spec: the operations of the store, applied in any order to a fresh      *)
(* store, as a caller of the Store trait applies them.  A panic ends the   *)
(* run.                                                                    *)
(***************************************************************************)

NoMsg == [c |-> 0, req |-> [op |-> "None"]]

ServerIdle ==
    /\ chan = << >>
    /\ exstate = "recv"
    /\ cur = NoMsg
    /\ hpc = << >>
    /\ hreq = << >>
    /\ pipe = << >>
    /\ out = << >>
    /\ sock = << >>
    /\ nreads = 0
    /\ sentlog = << >>
    /\ ndone = 0
    /\ eofseen = << >>
    /\ listening = TRUE
    /\ buf = << >>
    /\ resp = << >>
    /\ replies = << >>

Init ==
    /\ build \in Builds
    /\ cbound = 128
    /\ store = new
    /\ last = [op |-> "new", key |-> << >>, args |-> << >>, res |-> Ok(None)]
    /\ nops = 0
    /\ ServerIdle

\* the caller applies one operation: r is what the operation yields
Apply(op, key, args, r) ==
    /\ nops < MaxOps
    /\ last.res.tag # "Panic"
    /\ store' = r.store
    /\ last' = [op |-> op, key |-> key, args |-> args, res |-> r.res]
    /\ nops' = nops + 1
    /\ UNCHANGED << build, cbound, serverVars >>

OpGet == \E k \in Keys : Apply("get", k, << >>, get(store, k))

OpSet == \E k \in Keys, v \in Vals : Apply("set", k, << v >>, set(store, k, v))

OpIncr == \E k \in Keys : Apply("incr", k, << >>, incr(store, k))

OpDecr == \E k \in Keys : Apply("decr", k, << >>, decr(store, k))

OpIncrBy ==
    \E k \in Keys, d \in Deltas : Apply("incrby", k, << d >>, incrby(store, k, d))

OpDecrBy ==
    \E k \in Keys, d \in Deltas : Apply("decrby", k, << d >>, decrby(store, k, d))

OpLPush == \E k \in Keys, v \in Vals : Apply("lpush", k, << v >>, lpush(store, k, v))

OpRPush == \E k \in Keys, v \in Vals : Apply("rpush", k, << v >>, rpush(store, k, v))

OpLPop == \E k \in Keys : Apply("lpop", k, << >>, lpop(store, k))

OpRPop == \E k \in Keys : Apply("rpop", k, << >>, rpop(store, k))

OpSAdd == \E k \in Keys, v \in Vals : Apply("sadd", k, << v >>, sadd(store, k, v))

OpSRem == \E k \in Keys, v \in Vals : Apply("srem", k, << v >>, srem(store, k, v))

OpSIsMember ==
    \E k \in Keys, v \in Vals : Apply("sismember", k, << v >>, sismember(store, k, v))

OpSMembers ==
    \E k \in Keys :
        \E order \in (IF Has(store.sets, k) THEN Orders(store.sets[k]) ELSE { << >> }) :
            Apply("smembers", k, << >>, smembers(store, k, order))

OpHGet ==
    \E k \in Keys, f \in Fields : Apply("hget", k, << f >>, hget(store, k, f))

OpHSet ==
    \E k \in Keys, f \in Fields, v \in Vals :
        Apply("hset", k, << f, v >>, hset(store, k, f, v))

OpHDel ==
    \E k \in Keys, f \in Fields : Apply("hdel", k, << f >>, hdel(store, k, f))

Next ==
    \/ OpGet \/ OpSet \/ OpIncr \/ OpDecr \/ OpIncrBy \/ OpDecrBy
    \/ OpLPush \/ OpRPush \/ OpLPop \/ OpRPop
    \/ OpSAdd \/ OpSRem \/ OpSIsMember \/ OpSMembers
    \/ OpHGet \/ OpHSet \/ OpHDel

Spec == Init /\ [][Next]_vars

(***************************************************************************)
(* SpecServer: start_server.  One executor task owns the store and the     *)
(* receiver of the channel; each connection has a task that loops over     *)
(* read, parse, send, await the reply, write.                              *)
(***************************************************************************)

\* the connections accepted by the listener (client ids)
Clients == { 1, 2 }

\* the values of config.cbound the server is started with
CBounds == { 1, 2 }

\* the length of the read buffer (512 in the source)
BufLen == 32

\* the number of socket reads, over all connections
MaxReads == 3

\* what one read of a socket may deliver
LineSet == << "S", "E", "T", " ", "k", " ", "5" >>
LineIncr == << "i", "n", "c", "r", " ", "k", "\n" >>
LineQuit == << "Q", "U", "I", "T" >>
LineUnknown == << "F", "O", "O", " ", "k" >>
LineDecrMin ==
    << "D", "E", "C", "R", "B", "Y", " ", "k", " ", "-" >>
        \o [i \in 1..19 |-> DigitChars[I64MinMag[i] + 1]]
LineNotUtf8 == << "G", "E", "T", " ", BadByte >>

Lines == { LineSet, LineIncr, LineQuit, LineUnknown, LineDecrMin, LineNotUtf8 }

\* a buffer that is not zeroed between the reads: behind the bytes read
\* it holds what is left of a longer request read before
ReadBuf_stale(bytes) ==
    [i \in 1..BufLen |-> IF i <= Len(bytes) THEN bytes[i]
                         ELSE IF i <= Len(LineDecrMin) THEN LineDecrMin[i]
                         ELSE NUL]

\* the buffer after a read that delivered bytes: [0; 512] with the bytes read
\* at its start
ReadBuf(bytes) ==
    [i \in 1..BufLen |-> IF i <= Len(bytes) THEN bytes[i] ELSE NUL]

Pipe(st, body) == [st |-> st, body |-> body]
NoPipe == Pipe("none", "")

\* the response a connection task holds: none, or the one it took from its
\* pipe ("taken"), of which write_all has written nothing, a part or all
Taken(st, body) == [st |-> st, body |-> body]
NoResp == Taken("none", "")

\* what the socket has taken of a body whose write did not get to its end
Partial(body) == "<part of> " \o body

Message(c, req) == [c |-> c, req |-> req]

\* a connection task that has parsed no request
NoReq == [op |-> "None"]

\* the buffer of an iteration that has not read: let mut buf = [0; 512]
NoBuf == [data |-> ReadBuf(<< >>), n |-> 0]

InitServer ==
    /\ build \in Builds
    /\ cbound \in CBounds
    /\ store = new
    /\ last = [op |-> "new", key |-> << >>, args |-> << >>, res |-> Ok(None)]
    /\ nops = 0
    /\ chan = << >>
    /\ exstate = "recv"
    /\ cur = NoMsg
    /\ hpc = [c \in Clients |-> "read"]
    /\ hreq = [c \in Clients |-> NoReq]
    /\ pipe = [c \in Clients |-> NoPipe]
    /\ out = [c \in Clients |-> << >>]
    /\ sock = [c \in Clients |-> "open"]
    /\ nreads = 0
    /\ sentlog = << >>
    /\ ndone = 0
    /\ eofseen = [c \in Clients |-> FALSE]
    /\ listening = TRUE
    /\ buf = [c \in Clients |-> NoBuf]
    /\ resp = [c \in Clients |-> NoResp]
    /\ replies = << >>

\* AfterParse without the test for Quit: the request is sent like any other
AfterParse_no_quit(c, parsed) ==
    IF parsed.tag = "Panic"
    THEN /\ hpc' = [hpc EXCEPT ![c] = "panicked"]
         /\ UNCHANGED hreq
    ELSE /\ hpc' = [hpc EXCEPT ![c] = "send"]
         /\ hreq' = [hreq EXCEPT ![c] = parsed.val]

\* the connection task after parse_request(&buf): it unwinds on a panic,
\* leaves the loop on Quit, and goes on to send anything else
AfterParse(c, parsed) ==
    IF parsed.tag = "Panic"
    THEN /\ hpc' = [hpc EXCEPT ![c] = "panicked"]
         /\ UNCHANGED hreq
    ELSE IF parsed.val = [op |-> "Quit"]
    THEN /\ hpc' = [hpc EXCEPT ![c] = "done"]
         /\ UNCHANGED hreq
    ELSE /\ hpc' = [hpc EXCEPT ![c] = "send"]
         /\ hreq' = [hreq EXCEPT ![c] = parsed.val]

\* parse_request(&buf) for the buffer of every read: of a line, and of no
\* bytes at all
Parsed == [bytes \in Lines \cup { << >> } |-> parse_request(ReadBuf(bytes))]

\* socket.read delivers bytes, whether the peer has closed since it sent
\* them or not and whatever became of the writes before; the request is
\* parsed from the buffer.  Once a read has reported the end of the stream
\* there are no bytes left to deliver.
HRead(c) ==
    /\ hpc[c] = "read"
    /\ ~eofseen[c]
    /\ nreads < MaxReads
    /\ \E bytes \in Lines :
          /\ buf' = [buf EXCEPT ![c] = [data |-> ReadBuf(bytes), n |-> Len(bytes)]]
          /\ AfterParse(c, Parsed[bytes])
    /\ nreads' = nreads + 1
    /\ UNCHANGED << replies, resp, listening, build, cbound, storeVars, chan, exstate, cur, pipe, out, sock,
                    sentlog, ndone, eofseen >>

\* socket.read reports end-of-stream (or an error): its result is ignored
\* and the buffer, still all zeros, is parsed
HReadEof(c) ==
    /\ hpc[c] = "read"
    /\ sock[c] # "open"
    /\ nreads < MaxReads
    /\ buf' = [buf EXCEPT ![c] = [data |-> ReadBuf(<< >>), n |-> 0]]
    /\ AfterParse(c, Parsed[<< >>])
    /\ nreads' = nreads + 1
    /\ eofseen' = [eofseen EXCEPT ![c] = TRUE]
    /\ UNCHANGED << replies, resp, listening, build, cbound, storeVars, chan, exstate, cur, pipe, out, sock,
                    sentlog, ndone >>

\* HSend without the wait for the reply: the task reads its next request
HSend_no_await(c) ==
    /\ hpc[c] = "send"
    /\ exstate # "panicked"
    /\ Len(chan) < cbound
    /\ chan' = Append(chan, Message(c, hreq[c]))
    /\ sentlog' = Append(sentlog, Message(c, hreq[c]))
    /\ pipe' = [pipe EXCEPT ![c] = Pipe("open", "")]
    /\ hpc' = [hpc EXCEPT ![c] = "read"]
    /\ UNCHANGED << replies, resp, buf, listening, build, cbound, storeVars, exstate, cur, hreq, out, sock, nreads,
                    ndone, eofseen >>

\* txc.send(msg).await with the receiver alive: the task waits while the
\* channel is full, then the message is queued
HSend(c) ==
    /\ hpc[c] = "send"
    /\ exstate # "panicked"
    /\ Len(chan) < cbound
    /\ chan' = Append(chan, Message(c, hreq[c]))
    /\ sentlog' = Append(sentlog, Message(c, hreq[c]))
    /\ pipe' = [pipe EXCEPT ![c] = Pipe("open", "")]
    /\ hpc' = [hpc EXCEPT ![c] = "await"]
    /\ UNCHANGED << replies, resp, buf, listening, build, cbound, storeVars, exstate, cur, hreq, out, sock, nreads,
                    ndone, eofseen >>

\* txc.send(msg).await with the receiver dropped: the send fails and drops
\* the message with its reply sender, and recv_pipe.await.unwrap() panics
HSendClosed(c) ==
    /\ hpc[c] = "send"
    /\ exstate = "panicked"
    /\ hpc' = [hpc EXCEPT ![c] = "panicked"]
    /\ UNCHANGED << replies, resp, buf, listening, build, cbound, storeVars, chan, exstate, cur, hreq, pipe, out,
                    sock, nreads, sentlog, ndone, eofseen >>

\* recv_pipe.await yields the response
HRecvReply(c) ==
    /\ hpc[c] = "await"
    /\ pipe[c].st = "full"
    /\ resp' = [resp EXCEPT ![c] = Taken("taken", pipe[c].body)]
    /\ pipe' = [pipe EXCEPT ![c] = NoPipe]
    /\ hpc' = [hpc EXCEPT ![c] = "write"]
    /\ UNCHANGED << replies, buf, listening, build, cbound, storeVars, chan, exstate, cur, hreq, out, sock,
                    nreads, sentlog, ndone, eofseen >>

\* what the socket may have taken of the response when its write ends.  The
\* peer is there: the body.  The peer has closed, or shut down its sending
\* side: the body (the peer still receives, or the kernel takes the write),
\* or the write fails and leaves nothing or a part of the body.  A write
\* has failed before: this one fails too.
Written(c) ==
    IF sock[c] = "open" THEN { << resp[c].body >> }
    ELSE IF sock[c] = "closed"
    THEN { << resp[c].body >>, << >>, << Partial(resp[c].body) >> }
    ELSE { << >> }

\* write_all(...).await returns, however long it was pending and in however
\* many parts the body went: the body is written, or the write failed
\* because the peer has closed; the state of the peer is not tested, the
\* result is ignored and the loop goes on.  A socket on which a write has
\* failed stays broken.
HWrite(c) ==
    /\ hpc[c] = "write"
    /\ \E w \in Written(c) :
          /\ out' = [out EXCEPT ![c] = @ \o w]
          /\ sock' = [sock EXCEPT ![c] = IF w = << resp[c].body >> THEN @ ELSE "broken"]
    /\ resp' = [resp EXCEPT ![c] = NoResp]
    /\ hpc' = [hpc EXCEPT ![c] = "read"]
    /\ UNCHANGED << replies, buf, listening, build, cbound, storeVars, chan, exstate, cur, hreq, pipe,
                    nreads, sentlog, ndone, eofseen >>

\* recv_pipe.await fails because the reply sender was dropped: unwrap panics
HRecvFailed(c) ==
    /\ hpc[c] = "await"
    /\ pipe[c].st = "tx_dropped"
    /\ pipe' = [pipe EXCEPT ![c] = NoPipe]
    /\ hpc' = [hpc EXCEPT ![c] = "panicked"]
    /\ UNCHANGED << replies, resp, buf, listening, build, cbound, storeVars, chan, exstate, cur, hreq, out, sock,
                    nreads, sentlog, ndone, eofseen >>

\* the peer closes its end of the connection, or shuts down its sending
\* side and goes on reading
PeerClose(c) ==
    /\ sock[c] = "open"
    /\ hpc[c] \in { "read", "send", "await", "write" }
    /\ sock' = [sock EXCEPT ![c] = "closed"]
    /\ UNCHANGED << replies, resp, buf, listening, build, cbound, storeVars, chan, exstate, cur, hpc, hreq, pipe, out,
                    nreads, sentlog, ndone, eofseen >>

\* ExRecv for a channel that yields its newest message first
ExRecv_lifo ==
    /\ exstate = "recv"
    /\ chan # << >>
    /\ cur' = chan[Len(chan)]
    /\ chan' = SubSeq(chan, 1, Len(chan) - 1)
    /\ exstate' = "exec"
    /\ UNCHANGED << replies, resp, buf, listening, build, cbound, storeVars, hpc, hreq, pipe, out, sock, nreads,
                    sentlog, ndone, eofseen >>

\* rx.recv().await yields the oldest message of the channel
ExRecv ==
    /\ exstate = "recv"
    /\ chan # << >>
    /\ cur' = Head(chan)
    /\ chan' = Tail(chan)
    /\ exstate' = "exec"
    /\ UNCHANGED << replies, resp, buf, listening, build, cbound, storeVars, hpc, hreq, pipe, out, sock, nreads,
                    sentlog, ndone, eofseen >>

\* msg.pipe.send(resp): the response reaches the pipe, unless the receiver
\* is gone, and then it is dropped and the error ignored
pipe_send(p, body) ==
    IF p.st = "open" THEN Pipe("full", body) ELSE p

\* the executor task unwinds: the store, the receiver with the messages
\* still queued, and the reply sender of every message it held are dropped
Unwound(c) ==
    IF pipe[c].st = "open" THEN Pipe("tx_dropped", "") ELSE pipe[c]

\* ExExecute on a copy of the store: the store of the task stays as it was
ExExecute_on_copy ==
    /\ exstate = "exec"
    /\ \E order \in ExecOrders(cur.req, store) :
          LET o == execute(cur.req, store, order)
          IN  IF o.panic
              THEN /\ exstate' = "panicked"
                   /\ chan' = << >>
                   /\ pipe' = [c \in Clients |-> Unwound(c)]
                   /\ UNCHANGED << store, ndone, replies >>
              ELSE /\ exstate' = "recv"
                   /\ store' = store
                   /\ pipe' = [pipe EXCEPT ![cur.c] = pipe_send(@, o.body)]
                   /\ ndone' = ndone + 1
                   /\ replies' = Append(replies, o.body)
                   /\ UNCHANGED chan
    /\ cur' = NoMsg
    /\ UNCHANGED << resp, buf, listening, build, cbound, last, nops, hpc, hreq, out, sock, nreads,
                    sentlog, eofseen >>

\* execute(msg.req, &mut store) and msg.pipe.send(resp)
ExExecute ==
    /\ exstate = "exec"
    /\ \E order \in ExecOrders(cur.req, store) :
          LET o == execute(cur.req, store, order)
          IN  IF o.panic
              THEN /\ exstate' = "panicked"
                   /\ chan' = << >>
                   /\ pipe' = [c \in Clients |-> Unwound(c)]
                   /\ UNCHANGED << store, ndone, replies >>
              ELSE /\ exstate' = "recv"
                   /\ store' = o.store
                   /\ pipe' = [pipe EXCEPT ![cur.c] = pipe_send(@, o.body)]
                   /\ ndone' = ndone + 1
                   /\ replies' = Append(replies, o.body)
                   /\ UNCHANGED chan
    /\ cur' = NoMsg
    /\ UNCHANGED << resp, buf, listening, build, cbound, last, nops, hpc, hreq, out, sock, nreads, sentlog,
                    eofseen >>

NextServer ==
    \/ \E c \in Clients : HRead(c)
    \/ \E c \in Clients : HReadEof(c)
    \/ \E c \in Clients : HSend(c)
    \/ \E c \in Clients : HSendClosed(c)
    \/ \E c \in Clients : HRecvReply(c)
    \/ \E c \in Clients : HWrite(c)
    \/ \E c \in Clients : HRecvFailed(c)
    \/ \E c \in Clients : PeerClose(c)
    \/ ExRecv
    \/ ExExecute

SpecServer == InitServer /\ [][NextServer]_vars

(***************************************************************************)
(* SpecDrop: SpecServer, and a connection task may be dropped at any of    *)
(* its await points, as the runtime does with its tasks when it shuts      *)
(* down.  The task's reply receiver is dropped with it.                    *)
(***************************************************************************)

HDropped(c) ==
    /\ hpc[c] \in { "read", "send", "await", "write" }
    /\ hpc' = [hpc EXCEPT ![c] = "dropped"]
    /\ pipe' = [pipe EXCEPT ![c] =
                   IF @.st \in { "open", "full" } THEN Pipe("rx_dropped", "")
                   ELSE IF @.st = "tx_dropped" THEN NoPipe
                   ELSE @]
    /\ \E w \in IF resp[c].st = "taken" /\ sock[c] # "broken"
                 THEN { << >>, << Partial(resp[c].body) >>, << resp[c].body >> }
                 ELSE { << >> } :
          out' = [out EXCEPT ![c] = @ \o w]
    /\ resp' = [resp EXCEPT ![c] = NoResp]
    /\ UNCHANGED << replies, buf, listening, build, cbound, storeVars, chan, exstate, cur, hreq,
                    sock, nreads, sentlog, ndone, eofseen >>

NextDrop ==
    \/ NextServer
    \/ \E c \in Clients : HDropped(c)

SpecDrop == InitServer /\ [][NextDrop]_vars

(***************************************************************************)
(* SpecShutdown: SpecDrop, and the accept loop may fail, which makes       *)
(* start_server return and drop tx, the sender it kept.  The executor      *)
(* leaves its loop when recv finds the channel empty and no sender left.   *)
(***************************************************************************)

\* the senders of the channel: tx, and the clone txc of every connection
\* task that has not ended
Senders ==
    (IF listening THEN 1 ELSE 0)
        + Cardinality({ c \in Clients : hpc[c] \in { "read", "send", "await", "write" } })

\* listener.accept().await? returns the error: start_server ends
AcceptFailed ==
    /\ listening
    /\ listening' = FALSE
    /\ UNCHANGED << replies, resp, buf, build, cbound, storeVars, chan, exstate, cur, hpc, hreq, pipe,
                    out, sock, nreads, sentlog, ndone, eofseen >>

\* rx.recv().await yields None: the channel is empty and every sender is
\* dropped; the while loop and the task end
ExExit ==
    /\ exstate = "recv"
    /\ chan = << >>
    /\ Senders = 0
    /\ exstate' = "exited"
    /\ UNCHANGED << replies, resp, buf, listening, build, cbound, storeVars, chan, cur, hpc, hreq, pipe,
                    out, sock, nreads, sentlog, ndone, eofseen >>

NextShutdown ==
    \/ NextDrop
    \/ AcceptFailed
    \/ ExExit

SpecShutdown == InitServer /\ [][NextShutdown]_vars

(***************************************************************************)
(* Properties of the store (Spec)                                          *)
(***************************************************************************)

TypeMaps == { "strings", "lists", "sets", "hashes" }

\* the maps of the store that hold the key
TypesOf(s, key) == { t \in TypeMaps : Has(s[t], key) }

\* the map an operation of the Store trait works on
OpType(op) ==
    CASE op \in { "get", "set", "incr", "decr", "incrby", "decrby" } -> "strings"
      [] op \in { "lpush", "rpush", "lpop", "rpop" } -> "lists"
      [] op \in { "sadd", "srem", "sismember", "smembers" } -> "sets"
      [] op \in { "hget", "hset", "hdel" } -> "hashes"

\* C1: at every moment a key is bound to at most one data type: it is never
\* at once in two of the maps strings, lists, sets, hashes.
C1_SingleTypePerKey ==
    \A k \in Keys : Cardinality(TypesOf(store, k)) <= 1

\* C2: an operation applied to a key that holds a value of another data type
\* returns an error and leaves the store as it was.
C2_TypeMismatchRejected ==
    [][(nops' = nops + 1 /\ TypesOf(store, last'.key) \ { OpType(last'.op) } # { })
          => (last'.res.tag = "Err" /\ store' = store)]_vars

(***************************************************************************)
(* Properties of the server (SpecServer, SpecDrop)                         *)
(***************************************************************************)

\* the messages of connection c that wait in the channel
InChan(c) == Cardinality({ i \in DOMAIN chan : chan[i].c = c })

\* 1 when the executor holds a message of connection c
Held(c) == IF exstate = "exec" /\ cur.c = c THEN 1 ELSE 0

\* 1 when the response to connection c waits in its reply pipe
InPipe(c) == IF pipe[c].st = "full" THEN 1 ELSE 0

\* the messages of connection c between its send and its receipt of the reply
Pending(c) == InChan(c) + Held(c) + InPipe(c)

\* the sequential application, to a new store, of the first n messages that
\* entered the channel, in the order they entered it
RECURSIVE Replay(_)
Replay(n) ==
    IF n = 0 THEN [store |-> new, bodies |-> << >>]
    ELSE LET p == Replay(n - 1)
             req == sentlog[n].req
             o == execute(req, p.store, CHOOSE order \in ExecOrders(req, p.store) : TRUE)
         IN  [store |-> o.store, bodies |-> Append(p.bodies, o.body)]

\* the places, among the first n messages, of those of connection c
IdxOf(c, n) == SelectSeq([i \in 1..n |-> i], LAMBDA i : sentlog[i].c = c)

\* among the responses to the first ndone messages, those to connection c
BodiesIn(all, c) ==
    LET idx == IdxOf(c, ndone) IN [j \in 1..Len(idx) |-> all[idx[j]]]

\* the responses the executor has given connection c, in the order of the
\* requests of c
RepliesTo(c) == BodiesIn(replies, c)

\* the responses connection c has been handed: written, being written, or
\* in its pipe
Delivered(c) ==
    out[c] \o (IF resp[c].st # "none" THEN << resp[c].body >> ELSE << >>)
           \o (IF pipe[c].st = "full" THEN << pipe[c].body >> ELSE << >>)

\* the responses to connection c that have not gone to a write that has
\* returned: the one in its pipe or in its hands
Unwritten(c) == InPipe(c) + (IF resp[c].st = "taken" THEN 1 ELSE 0)

\* the responses to connection c whose write has returned
WriteReturned(c) ==
    LET bodies == RepliesTo(c)
    IN  SubSeq(bodies, 1, Len(bodies) - Unwritten(c))

RECURSIVE WrittenFrom(_, _)
\* written is what writes of the bodies, one after the other, can have left
\* on a socket: of every body the whole, a part, or nothing
WrittenFrom(written, bodies) ==
    IF written = << >> THEN TRUE
    ELSE IF bodies = << >> THEN FALSE
    ELSE \/ /\ Head(written) \in { Head(bodies), Partial(Head(bodies)) }
            /\ WrittenFrom(Tail(written), Tail(bodies))
         \/ WrittenFrom(written, Tail(bodies))

\* the messages that entered the channel and that the executor has not
\* finished
Unexecuted == SubSeq(sentlog, ndone + 1, Len(sentlog))

\* C3: the executor takes the messages in the order they entered the
\* channel, and the store and every response are those of the sequential
\* application of the requests in that order: the responses the executor
\* has given are those of the replay, and what a connection holds in its
\* pipe, in its hands or has written to its socket, whatever its peer has
\* done, is the response to a request of its own (or a part of it, when the
\* write failed).
C3_Linearized ==
    /\ exstate = "exec" => cur = sentlog[ndone + 1]
    /\ exstate = "recv" => chan = Unexecuted
    /\ exstate = "exec" => chan = Tail(Unexecuted)
    /\ LET r == Replay(ndone)
       IN  /\ store = r.store
           /\ replies = r.bodies
           /\ \A c \in Clients :
                  LET bodies == BodiesIn(r.bodies, c)
                      n == Len(bodies)
                  IN  /\ pipe[c].st = "full" => (n >= 1 /\ pipe[c].body = bodies[n])
                      /\ resp[c].st = "taken" => (n >= 1 /\ resp[c].body = bodies[n])
                      /\ \A i \in 1..Len(out[c]) :
                             \E j \in 1..n :
                                 out[c][i] \in { bodies[j], Partial(bodies[j]) }
                      /\ sock[c] = "open" => Delivered(c) = bodies

\* a connection whose first write failed has read its next request, INCR of
\* k, which was executed third, after the other connection was answered
C3_Witness ==
    /\ ndone = 3
    /\ Has(store.strings, << "k" >>)
    /\ \E c \in Clients :
          /\ sock[c] = "broken"
          /\ out[c] = << >>
          /\ sentlog[1].c = c
          /\ sentlog[3].c = c
          /\ sentlog[3].req = [op |-> "Incr", key |-> << "k" >>]
          /\ \E d \in Clients \ { c } : sentlog[2].c = d /\ Len(out[d]) = 1

\* C4: every message a handler sends brings exactly one response back to
\* that handler: while the handler waits, its message is in the channel, or
\* with the executor, or its response is in the handler's pipe, and nothing
\* is on its way to a handler that does not wait.
C4_ExactlyOneResponse ==
    \A c \in Clients :
        IF hpc[c] = "await" THEN Pending(c) = 1 ELSE Pending(c) = 0

\* C5: a connection has at most one message in flight, it reads its next
\* request only after it has received the response to the previous one, and
\* its responses are written in the order of its requests: what its socket
\* has taken is what the writes of its responses, in the order of its
\* requests, leave (all of them whole while the peer is there; after the
\* peer has closed a write may leave a part or nothing).
C5_PerConnectionOrder ==
    \A c \in Clients :
        /\ Pending(c) <= 1
        /\ hpc[c] = "read" =>
              /\ Pending(c) = 0
              /\ pipe[c].st = "none"
              /\ resp[c].st = "none"
              /\ \A i \in DOMAIN sentlog : sentlog[i].c = c => i <= ndone
        /\ Unwritten(c) <= Len(RepliesTo(c))
        /\ WrittenFrom(out[c], WriteReturned(c))
        /\ sock[c] = "open" => out[c] = WriteReturned(c)

\* a connection has written two different responses and is at its read; the
\* other connection read a request after its peer had closed, and the write
\* of the response left a part of it
C5_Witness ==
    \E c \in Clients :
        /\ Len(out[c]) = 2
        /\ out[c][1] # out[c][2]
        /\ hpc[c] = "read"
        /\ \E d \in Clients \ { c } :
              /\ sock[d] = "broken"
              /\ Len(RepliesTo(d)) = 1
              /\ out[d] = << Partial(RepliesTo(d)[1]) >>

\* C6: the channel never holds more than cbound messages, and no message
\* that entered it is lost: until the executor takes it, it is in the channel.
C6_BoundedNoLoss ==
    /\ Len(chan) <= cbound
    /\ chan = IF exstate = "recv" THEN Unexecuted ELSE Tail(Unexecuted)

\* C7: once a read of a connection has met end-of-stream or an error, the
\* loop of that connection has ended: it sends no message any more.
C7_LoopEndsAtEof ==
    \A c \in Clients : eofseen[c] => hpc[c] \notin { "read", "send", "await", "write" }

\* C8: a connection that parses Quit ends its loop without sending a
\* message: no Quit ever enters the channel, the step that ends the loop
\* leaves the store, the channel, the executor and the other connections as
\* they were, and a loop that has ended stays ended.
C8_QuitEndsOnlyItsLoop ==
    [][\A c \in Clients :
          /\ (hpc[c] = "read" /\ hpc'[c] = "done") =>
                /\ UNCHANGED << store, chan, sentlog, exstate, cur, pipe, out, ndone >>
                /\ \A d \in Clients \ { c } : hpc'[d] = hpc[d] /\ hreq'[d] = hreq[d]
          /\ hpc[c] = "done" => hpc'[c] = "done"
          /\ \A i \in DOMAIN sentlog' : sentlog'[i].req.op # "Quit"]_vars

C8_Witness ==
    \E c \in Clients :
        /\ hpc[c] = "done"
        /\ Len(out[c]) = 1
        /\ \E d \in Clients \ { c } : Len(out[d]) = 1 /\ hpc[d] = "read"

\* C9: when the handler of a message is gone before the executor answers,
\* the executor still applies the request to the store, the response is
\* discarded without an error, and the executor goes on to receive.
C9_DroppedReceiverIgnored ==
    [][(exstate = "exec" /\ exstate' # "exec" /\ pipe[cur.c].st = "rx_dropped") =>
          /\ \E order \in ExecOrders(cur.req, store) :
                store' = execute(cur.req, store, order).store
          /\ exstate' = "recv"
          /\ ndone' = ndone + 1
          /\ pipe' = pipe]_vars

\* the Result of the store operation an integer request calls
StoreResult(req, s) ==
    CASE req.op = "Incr" -> incr(s, req.key).res
      [] req.op = "Decr" -> decr(s, req.key).res
      [] req.op = "IncrBy" -> incrby(s, req.key, req.delta).res
      [] req.op = "DecrBy" -> decrby(s, req.key, req.delta).res
      [] OTHER -> Ok(None)

\* the message of the error a request ends in, if it ends in one
ErrorOf(req, s) ==
    IF req.op = "Invalid" THEN Some(req.error)
    ELSE IF StoreResult(req, s).tag = "Err" THEN Some(StoreResult(req, s).message)
    ELSE None

\* C10: a request that ends in Invalid or in an error of the store is
\* answered with the body "(error) <message>"; the executor goes on to
\* receive, and the connection writes the response and reads its next
\* request: the write is that of the body it took, which the socket takes
\* whole while the peer is there (and whole, in part or not at all after
\* the peer has closed), and the task is at its read whatever became of
\* the write.
C10_ErrorsAreAnswered ==
    [][/\ (exstate = "exec" /\ exstate' # "exec"
             /\ ErrorOf(cur.req, store) # None) =>
             /\ exstate' = "recv"
             /\ pipe[cur.c].st = "open" =>
                   pipe'[cur.c] =
                       Pipe("full", "(error) " \o ErrorOf(cur.req, store).val)
       /\ \A c \in Clients :
             /\ (hpc[c] = "await" /\ pipe[c].st = "full" /\ hpc'[c] # "await") =>
                    /\ hpc'[c] = "write"
                    /\ resp'[c].body = pipe[c].body
             /\ (hpc[c] = "write" /\ hpc'[c] # "write") =>
                    /\ hpc'[c] = "read"
                    /\ out'[c] \in { out[c] \o w :
                                      w \in { << resp[c].body >>, << >>,
                                              << Partial(resp[c].body) >> } }
                    /\ sock[c] = "open" => out'[c] = Append(out[c], resp[c].body)]_vars

C10_Witness ==
    \E c \in Clients :
        /\ out[c] = << "(error) Specified key does not exist", "OK" >>
        /\ \E d \in Clients \ { c } :
              /\ Len(out[d]) = 1
              /\ \E i \in DOMAIN sentlog :
                    /\ sentlog[i].c = d
                    /\ sentlog[i].req.op = "Invalid"
                    /\ out[d][1] = "(error) " \o sentlog[i].req.error

\* C11: bytes that are not UTF-8 cause only that request to be rejected: the
\* connection that read them goes on being served (its task does not end
\* in the read), and the executor and the other connections are as they were.
C11_NonUtf8Rejected ==
    [][\A c \in Clients :
          (hpc[c] = "read" /\ hpc'[c] # "read") =>
              /\ hpc'[c] \in { "send", "done" }
              /\ UNCHANGED << store, chan, exstate, cur, pipe, out >>
              /\ \A d \in Clients \ { c } : hpc'[d] = hpc[d]]_vars

(***************************************************************************)
(* Properties of the integer operations (Spec)                             *)
(***************************************************************************)

IntOps == { "incr", "decr", "incrby", "decrby" }

OutOfBounds == "Operation would cause integer to go out-of-bounds"

\* the integer an integer operation adds: 1, -1, x, and -d as integers
MathDelta(op, args) ==
    CASE op = "incr" -> Int64(FALSE, << 1 >>)
      [] op = "decr" -> Int64(TRUE, << 1 >>)
      [] op = "incrby" -> args[1]
      [] op = "decrby" -> Int64(~args[1].neg, args[1].mag)

\* the step applies an integer operation to a key that holds the decimal
\* text of a 64-bit integer
IntStep ==
    /\ nops' = nops + 1
    /\ last'.op \in IntOps
    /\ Has(store.strings, last'.key)
    /\ parse_i64(store.strings[last'.key]).tag = "Ok"

\* C12: an integer operation on a key that holds the integer p returns p
\* plus its delta and stores the decimal text of the sum when the sum is in
\* the signed 64-bit range, and otherwise returns the out-of-bounds error
\* and leaves the string unchanged; the deltas of incr, decr, incrby(K,x)
\* and decrby(K,d) are 1, -1, x and -d, for every d whose -d is a 64-bit
\* integer (that is, a delta incrby can be given).
C12_IntegerArithmetic ==
    [][(IntStep /\ ~(last'.op = "decrby" /\ last'.args[1] = I64_MIN)) =>
          LET K == last'.key
              sum == IntAdd(parse_i64(store.strings[K]).val,
                            MathDelta(last'.op, last'.args))
          IN  IF InI64(sum)
              THEN /\ last'.res = Ok(sum)
                   /\ store' = [store EXCEPT !.strings =
                                    Put(@, K, i64_to_string(sum))]
              ELSE /\ last'.res = Err(OutOfBounds)
                   /\ store' = store]_vars

C12_Witness ==
    /\ nops = 3
    /\ last.op = "incrby"
    /\ last.key = << "k" >>
    /\ last.res = Err(OutOfBounds)
    /\ Has(store.strings, << "k" >>)
    /\ store.strings[<< "k" >>] = << "6" >>

\* C13: decrby with the minimum 64-bit integer as delta returns the
\* out-of-bounds error for every integer stored at the key, and leaves the
\* store unchanged.
C13_DecrbyMinIsOverflow ==
    [][(IntStep /\ last'.op = "decrby" /\ last'.args[1] = I64_MIN) =>
          (last'.res = Err(OutOfBounds) /\ store' = store)]_vars

\* C14: an integer operation on a key absent from strings returns the error
\* "Specified key does not exist" and does not create the key; on a key
\* whose string is not the decimal text of a 64-bit integer it returns the
\* error "Value stored at key cannot be represented as a 64-bit integer"
\* and leaves the string unchanged.
C14_IntegerOperandErrors ==
    [][(nops' = nops + 1 /\ last'.op \in IntOps) =>
          LET K == last'.key
          IN  /\ ~Has(store.strings, K) =>
                    /\ last'.res = Err("Specified key does not exist")
                    /\ store' = store
              /\ (Has(store.strings, K)
                    /\ parse_i64(store.strings[K]).tag = "Err") =>
                    /\ last'.res =
                           Err("Value stored at key cannot be represented as a 64-bit integer")
                    /\ store' = store]_vars

\* C15: Incr on a key that holds a string that is not an integer is
\* answered with the body "(error) Cannot increment non-integer values".
C15_IncrNonIntegerBody ==
    \A k \in Keys :
        (Has(store.strings, k) /\ parse_i64(store.strings[k]).tag = "Err") =>
            execute([op |-> "Incr", key |-> k], store, << >>).body
                = "(error) Cannot increment non-integer values"

(***************************************************************************)
(* Properties of strings, lists, sets and hashes (Spec)                    *)
(***************************************************************************)

\* the value of Option<String> stored in strings at the key
StringAt(s, key) == IF Has(s.strings, key) THEN Some(s.strings[key]) ELSE None

\* C16: set(K,V) returns the value strings held at K before (None if none)
\* and get(K) is Some(V) after it; get returns the string at the key, None
\* for a key never set, and changes nothing; the string at a key changes
\* only by set and the integer operations, and only set adds a key.
C16_SetThenGet ==
    [][nops' = nops + 1 =>
          LET K == last'.key
          IN  /\ last'.op = "set" =>
                    /\ last'.res = Ok(StringAt(store, K))
                    /\ get(store', K).res = Ok(Some(last'.args[1]))
              /\ last'.op = "get" =>
                    /\ last'.res = Ok(StringAt(store, K))
                    /\ store' = store
              /\ last'.op \notin IntOps \cup { "set" } =>
                    store'.strings = store.strings
              /\ last'.op # "set" =>
                    DOMAIN store'.strings = DOMAIN store.strings]_vars

C16_Witness ==
    /\ nops = 3
    /\ last.op = "get"
    /\ last.key = << "k" >>
    /\ last.res = Ok(Some(<< "5" >>))
    /\ ~Has(store.strings, << "j" >>)
    /\ get(store, << "j" >>).res = Ok(None)
    /\ Has(store.lists, << "k" >>)

\* the list at the key, the empty list when there is none
ListAt(s, key) == IF Has(s.lists, key) THEN s.lists[key] ELSE << >>

\* C17: a list is a double-ended queue: lpush puts the value before the
\* head and rpush after the tail, and each returns the previous length plus
\* one; lpop removes and returns the head, rpop removes and returns the
\* tail; the other elements keep their order.  So lpush(K,V); lpop(K) and
\* rpush(K,V); rpop(K) return Some(V).
C17_ListIsDeque ==
    [][nops' = nops + 1 =>
          LET K == last'.key
              before == ListAt(store, K)
              after == ListAt(store', K)
          IN  /\ last'.op = "lpush" =>
                    /\ last'.res = Ok(Len(before) + 1)
                    /\ after = << last'.args[1] >> \o before
                    /\ lpop(store', K).res = Ok(Some(last'.args[1]))
              /\ last'.op = "rpush" =>
                    /\ last'.res = Ok(Len(before) + 1)
                    /\ after = before \o << last'.args[1] >>
                    /\ rpop(store', K).res = Ok(Some(last'.args[1]))
              /\ (last'.op = "lpop" /\ before # << >>) =>
                    /\ last'.res = Ok(Some(before[1]))
                    /\ after = SubSeq(before, 2, Len(before))
              /\ (last'.op = "rpop" /\ before # << >>) =>
                    /\ last'.res = Ok(Some(before[Len(before)]))
                    /\ after = SubSeq(before, 1, Len(before) - 1)
              /\ last'.op \notin { "lpush", "rpush", "lpop", "rpop" } =>
                    store'.lists = store.lists
              /\ \A k \in Keys \ { K } : ListAt(store', k) = ListAt(store, k)]_vars

C17_Witness ==
    /\ nops = 3
    /\ last.op = "rpop"
    /\ last.key = << "k" >>
    /\ last.res = Ok(Some(<< "a" >>))
    /\ ListAt(store, << "k" >>) = << << "5" >> >>

\* C18: a list, set or hash is created by the first lpush/rpush, sadd or
\* hset to an absent key, and by nothing else, and it is never removed from
\* its mapping, not even when it becomes empty; lpop and rpop on an absent
\* or empty list return None and change nothing.
C18_ContainerLifecycle ==
    [][nops' = nops + 1 =>
          LET K == last'.key
          IN  /\ DOMAIN store.lists \subseteq DOMAIN store'.lists
              /\ DOMAIN store.sets \subseteq DOMAIN store'.sets
              /\ DOMAIN store.hashes \subseteq DOMAIN store'.hashes
              /\ DOMAIN store'.lists = DOMAIN store.lists
                    \cup (IF last'.op \in { "lpush", "rpush" } THEN { K } ELSE { })
              /\ DOMAIN store'.sets = DOMAIN store.sets
                    \cup (IF last'.op = "sadd" THEN { K } ELSE { })
              /\ DOMAIN store'.hashes = DOMAIN store.hashes
                    \cup (IF last'.op = "hset" THEN { K } ELSE { })
              /\ (last'.op \in { "lpop", "rpop" } /\ ListAt(store, K) = << >>) =>
                    /\ last'.res = Ok(None)
                    /\ store' = store]_vars

C18_Witness ==
    /\ nops = 3
    /\ last.op \in { "lpop", "rpop" }
    /\ last.key = << "k" >>
    /\ last.res = Ok(None)
    /\ Has(store.lists, << "k" >>)
    /\ store.lists[<< "k" >>] = << >>
    /\ ~Has(store.lists, << "j" >>)

\* the members of the set at the key, none when there is no set
MembersAt(s, key) == IF Has(s.sets, key) THEN s.sets[key] ELSE { }

\* C19: after sadd(K,V), sismember(K,V) is true, and sadd returns the
\* cardinality of the set after the insertion; the sadd of a value that is
\* already a member returns the same cardinality and leaves the set as it
\* was.
C19_SaddMembership ==
    [][(nops' = nops + 1 /\ last'.op = "sadd") =>
          LET K == last'.key
              V == last'.args[1]
          IN  /\ sismember(store', K, V).res = Ok(TRUE)
              /\ MembersAt(store', K) = MembersAt(store, K) \cup { V }
              /\ last'.res = Ok(Cardinality(MembersAt(store', K)))
              /\ V \in MembersAt(store, K) =>
                    /\ store' = store
                    /\ last'.res = Ok(Cardinality(MembersAt(store, K)))
              /\ sadd(store', K, V) = Ret(store', last'.res)]_vars

C19_Witness ==
    /\ nops = 3
    /\ last.op = "sadd"
    /\ last.key = << "k" >>
    /\ last.res = Ok(2)
    /\ MembersAt(store, << "k" >>) = Vals
    /\ store.sets[<< "k" >>] = sadd(store, << "k" >>, << "a" >>).store.sets[<< "k" >>]
    /\ sismember(store, << "k" >>, last.args[1]).res = Ok(TRUE)

\* C20: srem(K,V) returns 0 when there is no set at K; otherwise it removes
\* V, if present, and returns the cardinality of the set after the removal;
\* sismember(K,V) is false afterwards.
C20_SremSizeAfter ==
    [][(nops' = nops + 1 /\ last'.op = "srem") =>
          LET K == last'.key
              V == last'.args[1]
          IN  /\ ~Has(store.sets, K) =>
                    (last'.res = Ok(0) /\ store' = store)
              /\ Has(store.sets, K) =>
                    /\ Has(store'.sets, K)
                    /\ store'.sets[K] = store.sets[K] \ { V }
                    /\ last'.res = Ok(Cardinality(store'.sets[K]))
              /\ sismember(store', K, V).res = Ok(FALSE)]_vars

C20_Witness ==
    /\ nops = 2
    /\ last.op = "srem"
    /\ last.key = << "k" >>
    /\ last.res = Ok(1)
    /\ Has(store.sets, << "k" >>)
    /\ store.sets[<< "k" >>] = { << "5" >> }
    /\ last.args = << << "a" >> >>

\* C21: srem(K,V) returns 0 and changes nothing whenever there is no set at
\* K or V is not a member of the set at K, also when that set has members.
C21_SremNonMemberIsZero ==
    [][(nops' = nops + 1 /\ last'.op = "srem"
          /\ last'.args[1] \notin MembersAt(store, last'.key)) =>
          (last'.res = Ok(0) /\ store' = store)]_vars

\* the lines "<i>) <member>\n" for the first n members of a vector
RECURSIVE NumberedLines(_, _)
NumberedLines(v, n) ==
    IF n = 0 THEN ""
    ELSE NumberedLines(v, n - 1)
             \o DigitChars[n + 1] \o ") " \o Join(v[n]) \o "\n"

\* C22: smembers(K) returns every member of the set at K exactly once and
\* nothing else, the empty vector when there is no set or no member; the
\* body of SMembers is "(empty list or set)" when there is no member, and
\* otherwise one line "<i>) <member>" ending in a newline per member, i
\* running from 1 to the cardinality.
C22_SmembersComplete ==
    \A k \in Keys :
        \A order \in ExecOrders([op |-> "SMembers", key |-> k], store) :
            LET v == smembers(store, k, order).res.val
                members == MembersAt(store, k)
                body == execute([op |-> "SMembers", key |-> k], store, order).body
            IN  /\ Len(v) = Cardinality(members)
                /\ { v[i] : i \in 1..Len(v) } = members
                /\ \A i, j \in 1..Len(v) : v[i] = v[j] => i = j
                /\ smembers(store, k, order).store = store
                /\ body = IF members = { } THEN "(empty list or set)"
                          ELSE NumberedLines(v, Len(v))

C22_Witness ==
    /\ nops = 3
    /\ last.op = "smembers"
    /\ last.key = << "k" >>
    /\ last.res = Ok(<< << "5" >>, << "a" >> >>)
    /\ MembersAt(store, << "k" >>) = Vals
    /\ execute([op |-> "SMembers", key |-> << "k" >>], store,
               << << "5" >>, << "a" >> >>).body = "1) 5\n2) a\n"

\* the hash at the key, the empty hash when there is none
HashAt(s, key) == IF Has(s.hashes, key) THEN s.hashes[key] ELSE EmptyMap

\* the value of Option<String> at a field of the hash at the key
FieldAt(s, key, field) ==
    IF Has(HashAt(s, key), field) THEN Some(HashAt(s, key)[field]) ELSE None

\* C23: hset(K,F,V) returns the value that was at field F of the hash at K
\* (None if the key or the field was absent) and hget(K,F) is Some(V) after
\* it, so that a second hset(K,F,V') returns Some(V) and leaves
\* hget(K,F) = Some(V'); the other fields of K are unchanged.
C23_HsetThenHget ==
    [][nops' = nops + 1 =>
          LET K == last'.key
              F == last'.args[1]
          IN  /\ last'.op = "hset" =>
                    /\ last'.res = Ok(FieldAt(store, K, F))
                    /\ hget(store', K, F).res = Ok(Some(last'.args[2]))
                    /\ \A V \in Vals :
                          LET again == hset(store', K, F, V)
                          IN  /\ again.res = Ok(Some(last'.args[2]))
                              /\ hget(again.store, K, F).res = Ok(Some(V))
                    /\ \A G \in Fields \ { F } :
                          FieldAt(store', K, G) = FieldAt(store, K, G)
              /\ last'.op = "hget" =>
                    /\ last'.res = Ok(FieldAt(store, K, F))
                    /\ store' = store]_vars

C23_Witness ==
    /\ nops = 3
    /\ last.op = "hset"
    /\ last.key = << "k" >>
    /\ last.args = << << "f" >>, << "5" >> >>
    /\ last.res = Ok(Some(<< "a" >>))
    /\ FieldAt(store, << "k" >>, << "f" >>) = Some(<< "5" >>)
    /\ FieldAt(store, << "k" >>, << "g" >>) = Some(<< "a" >>)

\* C24: hdel(K,F) returns 1 exactly when field F was in the hash at K, and
\* then removes it; it returns 0 when the field or the key is absent, and
\* creates no hash; after it hget(K,F) is None and a second hdel(K,F)
\* returns 0.
C24_HdelCountsRemoval ==
    [][(nops' = nops + 1 /\ last'.op = "hdel") =>
          LET K == last'.key
              F == last'.args[1]
          IN  /\ last'.res = IF FieldAt(store, K, F) # None THEN Ok(1) ELSE Ok(0)
              /\ FieldAt(store, K, F) = None => store' = store
              /\ Has(store'.hashes, K) = Has(store.hashes, K)
              /\ hget(store', K, F).res = Ok(None)
              /\ hdel(store', K, F).res = Ok(0)
              /\ \A G \in Fields \ { F } :
                    FieldAt(store', K, G) = FieldAt(store, K, G)]_vars

C24_Witness ==
    /\ nops = 3
    /\ last.op = "hdel"
    /\ last.key = << "k" >>
    /\ last.args = << << "f" >> >>
    /\ last.res = Ok(1)
    /\ Has(store.hashes, << "k" >>)
    /\ FieldAt(store, << "k" >>, << "f" >>) = None
    /\ FieldAt(store, << "k" >>, << "g" >>) = Some(<< "a" >>)
    /\ ~Has(store.hashes, << "j" >>)

(***************************************************************************)
(* SpecExec: the executor's dispatch alone.  Requests are executed one     *)
(* after the other on the store, as the executor task does with the        *)
(* requests of the messages it receives.                                   *)
(***************************************************************************)

InvalidErrors == { "Unrecognized operator", "Value to increment by is a non-integer" }

\* the values of Request the executor is given
Requests ==
    { [op |-> "Ping"], [op |-> "NoOp"] }
    \cup { Invalid(e) : e \in InvalidErrors }
    \cup { [op |-> o, key |-> k] :
             o \in { "Get", "Incr", "Decr", "LPop", "RPop", "SMembers" }, k \in Keys }
    \cup { [op |-> o, key |-> k, val |-> v] :
             o \in { "Set", "LPush", "RPush", "SAdd", "SRem", "SIsMember" },
             k \in Keys, v \in Vals }
    \cup { [op |-> o, key |-> k, delta |-> d] :
             o \in { "IncrBy", "DecrBy" }, k \in Keys, d \in Deltas }
    \cup { [op |-> o, key |-> k, field |-> f] :
             o \in { "HGet", "HDel" }, k \in Keys, f \in Fields }
    \cup { [op |-> "HSet", key |-> k, field |-> f, val |-> v] :
             k \in Keys, f \in Fields, v \in Vals }

\* execute(req, &mut store): the request, the store it met and the Response
ExecuteRequest ==
    /\ nops < MaxOps
    /\ last.res.tag # "Panic"
    /\ \E req \in Requests :
          \E order \in ExecOrders(req, store) :
              LET o == execute(req, store, order)
              IN  /\ store' = o.store
                  /\ last' = [op |-> "execute", key |-> << >>, args |-> << req >>,
                              res |-> IF o.panic
                                      THEN Panic("attempt to negate with overflow")
                                      ELSE [tag |-> "Response", body |-> o.body]]
    /\ nops' = nops + 1
    /\ UNCHANGED << build, cbound, serverVars >>

NextExec == ExecuteRequest

SpecExec == Init /\ [][NextExec]_vars

(***************************************************************************)
(* The bodies of the responses                                             *)
(***************************************************************************)

\* the body for an optional value: the value in double quotes, or (nil)
Quoted(opt) == IF opt = None THEN "(nil)" ELSE "\"" \o Join(opt.val) \o "\""

\* the body for a count or a length below ten
Counted(n) == "(integer) " \o DigitChars[n + 1]

\* the first and the last element of the list at a key, if it has any
HeadAt(s, key) == IF ListAt(s, key) = << >> THEN None ELSE Some(Head(ListAt(s, key)))
TailAt(s, key) ==
    IF ListAt(s, key) = << >> THEN None
    ELSE Some(ListAt(s, key)[Len(ListAt(s, key))])

\* C25: the body of the response to a request is PONG for Ping; OK for Set;
\* for Get, LPop, RPop and HGet the value in double quotes on a hit and
\* (nil) on a miss; "(integer) " and the decimal number for the integer and
\* length results; (integer) 1 or 0 for SIsMember; for HSet (integer) 1 when
\* the field is new and (integer) 0 when it existed; for HDel (integer) 1 or
\* 0; and "(error) " and the message for Invalid.
C25_ResponseBodies ==
    [][(nops' = nops + 1 /\ last'.op = "execute" /\ last'.res.tag = "Response") =>
          LET req == last'.args[1]
              body == last'.res.body
          IN  CASE req.op = "Ping" -> body = "PONG"
                [] req.op = "Set" -> body = "OK"
                [] req.op = "Get" -> body = Quoted(StringAt(store, req.key))
                [] req.op = "LPop" -> body = Quoted(HeadAt(store, req.key))
                [] req.op = "RPop" -> body = Quoted(TailAt(store, req.key))
                [] req.op = "HGet" -> body = Quoted(FieldAt(store, req.key, req.field))
                [] req.op \in { "Incr", "Decr", "IncrBy", "DecrBy" } ->
                      StoreResult(req, store).tag = "Ok" =>
                          body = "(integer) " \o Join(store'.strings[req.key])
                [] req.op \in { "LPush", "RPush" } ->
                      body = Counted(Len(ListAt(store', req.key)))
                [] req.op \in { "SAdd", "SRem" } ->
                      body = Counted(Cardinality(MembersAt(store', req.key)))
                [] req.op = "SIsMember" ->
                      body = Counted(IF req.val \in MembersAt(store, req.key) THEN 1 ELSE 0)
                [] req.op = "HSet" ->
                      body = Counted(IF FieldAt(store, req.key, req.field) = None
                                     THEN 1 ELSE 0)
                [] req.op = "HDel" ->
                      body = Counted(IF FieldAt(store, req.key, req.field) = None
                                     THEN 0 ELSE 1)
                [] req.op = "Invalid" -> body = "(error) " \o req.error
                [] OTHER -> TRUE]_vars

\* the second request was an HSet of a field that the first had set, and it
\* was answered (integer) 0
C25_Witness ==
    /\ last.op = "execute"
    /\ last.args[1].op = "HSet"
    /\ last.res = [tag |-> "Response", body |-> "(integer) 0"]
    /\ nops = 2

(***************************************************************************)
(* The lexer.  A position in the character stream is an index into the     *)
(* text; a token scan yields the token and the position after it.          *)
(***************************************************************************)

\* an is_whitespace that leaves NUL out
is_whitespace_without_nul(ch) == ch \in WhiteChars \/ ch = "\n"

\* Lexer::is_whitespace
is_whitespace(ch) == ch \in WhiteChars \/ ch = NUL \/ ch = "\n"

RECURSIVE consume_whitespace(_, _)
\* Lexer::consume_whitespace from position i: the position it stops at
consume_whitespace(text, i) ==
    IF i <= Len(text) /\ is_whitespace(text[i])
    THEN consume_whitespace(text, i + 1)
    ELSE i

RECURSIVE QuotedFrom_to_whitespace(_, _, _)
\* a quoted token that also ends at whitespace
QuotedFrom_to_whitespace(text, i, token) ==
    IF i > Len(text) THEN [token |-> token, next |-> i]
    ELSE IF text[i] = "\"" THEN [token |-> token, next |-> i + 1]
    ELSE IF is_whitespace(text[i]) THEN [token |-> token, next |-> i]
    ELSE QuotedFrom_to_whitespace(text, i + 1, Append(token, text[i]))

RECURSIVE QuotedFrom(_, _, _)
\* the loop of tokenize_quoted_string and the consumption of the right
\* quotation mark, if there is one
QuotedFrom(text, i, token) ==
    IF i > Len(text) THEN [token |-> token, next |-> i]
    ELSE IF text[i] = "\"" THEN [token |-> token, next |-> i + 1]
    ELSE QuotedFrom(text, i + 1, Append(token, text[i]))

\* Lexer::tokenize_quoted_string with the left quotation mark at i
tokenize_quoted_string(text, i) == QuotedFrom(text, i + 1, << >>)

RECURSIVE StringFrom(_, _, _)
StringFrom(text, i, token) ==
    IF i > Len(text) \/ is_whitespace(text[i]) THEN [token |-> token, next |-> i]
    ELSE StringFrom(text, i + 1, Append(token, text[i]))

\* Lexer::tokenize_string
tokenize_string(text, i) == StringFrom(text, i, << >>)

\* Lexer::next_token
next_token(text, i) ==
    LET j == consume_whitespace(text, i)
    IN  IF j > Len(text) THEN None
        ELSE IF text[j] = "\"" THEN Some(tokenize_quoted_string(text, j))
        ELSE Some(tokenize_string(text, j))

RECURSIVE TokensFrom(_, _)
\* while let Some(token) = self.next_token() { result.argv.push(token) }
TokensFrom(text, i) ==
    LET t == next_token(text, i)
    IN  IF t = None THEN << >>
        ELSE << t.val.token >> \o TokensFrom(text, t.val.next)

\* LexerResult::new
LexerResult_new == [op |-> Operator("MetaOp", "NoOp"), argv |-> << >>]

\* Lexer::tokenize; its keyword match is the one of parse
Lexer_tokenize(text) ==
    LET first == next_token(text, 1)
    IN  IF first = None THEN LexerResult_new
        ELSE [op |-> Keyword(Join(to_uppercase(first.val.token))),
              argv |-> TokensFrom(text, first.val.next)]

\* tokenize: the LexerResult, or std::process::exit(1) for bytes that are
\* not UTF-8
tokenize(bytes) ==
    IF IsUtf8(bytes) THEN Ok(Lexer_tokenize(bytes))
    ELSE [tag |-> "Exit", code |-> 1]

(***************************************************************************)
(* SpecParse: parse_request and tokenize as functions of the bytes.  An    *)
(* input is a first word, argument words and the whitespace around and     *)
(* between them; the text is put together by InputBytes.                   *)
(***************************************************************************)

\* the operators with operands: keyword, Request variant, operand count and
\* the fields the operands go to
OperandTable ==
    { [word |-> << "P", "I", "N", "G" >>, variant |-> "Ping", n |-> 0, shape |-> "none"],
      [word |-> << "G", "E", "T" >>, variant |-> "Get", n |-> 1, shape |-> "key"],
      [word |-> << "S", "E", "T" >>, variant |-> "Set", n |-> 2, shape |-> "val"],
      [word |-> << "I", "N", "C", "R" >>, variant |-> "Incr", n |-> 1, shape |-> "key"],
      [word |-> << "D", "E", "C", "R" >>, variant |-> "Decr", n |-> 1, shape |-> "key"],
      [word |-> << "I", "N", "C", "R", "B", "Y" >>, variant |-> "IncrBy", n |-> 2, shape |-> "delta"],
      [word |-> << "D", "E", "C", "R", "B", "Y" >>, variant |-> "DecrBy", n |-> 2, shape |-> "delta"],
      [word |-> << "L", "P", "U", "S", "H" >>, variant |-> "LPush", n |-> 2, shape |-> "val"],
      [word |-> << "R", "P", "U", "S", "H" >>, variant |-> "RPush", n |-> 2, shape |-> "val"],
      [word |-> << "L", "P", "O", "P" >>, variant |-> "LPop", n |-> 1, shape |-> "key"],
      [word |-> << "R", "P", "O", "P" >>, variant |-> "RPop", n |-> 1, shape |-> "key"],
      [word |-> << "S", "A", "D", "D" >>, variant |-> "SAdd", n |-> 2, shape |-> "val"],
      [word |-> << "S", "R", "E", "M" >>, variant |-> "SRem", n |-> 2, shape |-> "val"],
      [word |-> << "S", "I", "S", "M", "E", "M", "B", "E", "R" >>, variant |-> "SIsMember", n |-> 2, shape |-> "val"],
      [word |-> << "S", "M", "E", "M", "B", "E", "R", "S" >>, variant |-> "SMembers", n |-> 1, shape |-> "key"],
      [word |-> << "H", "G", "E", "T" >>, variant |-> "HGet", n |-> 2, shape |-> "field"],
      [word |-> << "H", "S", "E", "T" >>, variant |-> "HSet", n |-> 3, shape |-> "fieldval"],
      [word |-> << "H", "D", "E", "L" >>, variant |-> "HDel", n |-> 2, shape |-> "field"] }

WordQuit == << "Q", "U", "I", "T" >>
WordFoo == << "F", "O", "O" >>
WordGets == << "G", "E", "T", "S" >>
WordSe == << "S", "E" >>

\* U+00DF, E, T: in upper case SSET
WordSharpSet == << SharpS, "E", "T" >>

\* first words that are no keyword
UnknownWords == { WordFoo, WordGets, WordSe, WordSharpSet }

FirstWords == { r.word : r \in OperandTable } \cup { WordQuit } \cup UnknownWords

LowerChar(c) ==
    IF c \in Range(UpperChars)
    THEN LowerChars[CHOOSE i \in 1..26 : UpperChars[i] = c]
    ELSE c

Casings == { "upper", "lower", "mixed", "long" }

\* a spelling of a word in upper case: as it is, in lower case, with every
\* second letter in lower case, or in lower case with the long s (U+017F)
\* for S and the dotless i (U+0131) for I
Recase(word, casing) ==
    [i \in 1..Len(word) |->
        IF casing = "long" /\ word[i] = "S" THEN LongS
        ELSE IF casing = "long" /\ word[i] = "I" THEN DotlessI
        ELSE IF casing \in { "lower", "long" } \/ (casing = "mixed" /\ i % 2 = 0)
        THEN LowerChar(word[i])
        ELSE word[i]]

\* argument words, with the integer a decimal word stands for
DeltaWords ==
    { [text |-> << "5" >>, val |-> Some(Int64(FALSE, << 5 >>))],
      [text |-> << "-", "5" >>, val |-> Some(Int64(TRUE, << 5 >>))],
      [text |-> << "+", "5" >>, val |-> Some(Int64(FALSE, << 5 >>))],
      [text |-> << "0", "7" >>, val |-> Some(Int64(FALSE, << 7 >>))],
      [text |-> << "1", ".", "5" >>, val |-> None],
      [text |-> << "a", "b", "c" >>, val |-> None],
      [text |-> << "5", "a" >>, val |-> None],
      [text |-> << "-" >>, val |-> None],
      [text |-> i64_to_string(I64_MAX), val |-> Some(I64_MAX)],
      [text |-> i64_to_string(I64_MIN), val |-> Some(I64_MIN)],
      [text |-> i64_to_string(IntAdd(I64_MAX, Int64(FALSE, << 1 >>))), val |-> None],
      [text |-> i64_to_string(IntAdd(I64_MIN, Int64(TRUE, << 1 >>))), val |-> None] }

\* the integer the word stands for, None if it is not the decimal text of a
\* signed 64-bit integer
DeltaValue(text) ==
    IF \E d \in DeltaWords : d.text = text
    THEN (CHOOSE d \in DeltaWords : d.text = text).val
    ELSE None

FirstArgs ==
    { << "k" >>, << "S", "E", "T" >>, << "s", "e", "t" >>, << "\"", "k" >>,
      << "\"", "k", "\"" >> }

SecondArgs == { d.text : d \in DeltaWords }

MaxArgs == 4

\* argument vectors of up to MaxArgs words
ArgVectors ==
    { << >> }
    \cup { << a >> : a \in FirstArgs }
    \cup { << a, b >> \o [i \in 1..n |-> << "a" >>] :
             a \in FirstArgs, b \in SecondArgs, n \in 0..(MaxArgs - 2) }

\* whitespace before the first word, between the words and after the last
Paddings ==
    { [pre |-> << >>, sep |-> << " " >>, suf |-> << >>],
      [pre |-> << " ", NUL >>, sep |-> << " " >>, suf |-> << "\n", NUL >>],
      [pre |-> << >>, sep |-> << "\t", " " >>, suf |-> << " " >>],
      [pre |-> << "\n" >>, sep |-> << NUL >>, suf |-> << >>],
      [pre |-> << "<U+000B>", "<U+00A0>" >>, sep |-> << "<U+000C>" >>,
       suf |-> << "<U+3000>", "<U+0085>" >>] }

RECURSIVE SepJoin(_, _)
\* the words, each after a separator
SepJoin(words, sep) ==
    IF words = << >> THEN << >>
    ELSE sep \o Head(words) \o SepJoin(Tail(words), sep)

\* the text of an input without the whitespace around it
CoreBytes(in) == in.word \o SepJoin(in.argv, in.sep)

\* the text of an input
InputBytes(in) == in.pre \o CoreBytes(in) \o in.suf

\* an input of the given words and whitespace, not yet parsed
Input(kw, word, argv, pad) ==
    [op |-> "input", kw |-> kw, word |-> word, argv |-> argv,
     pre |-> pad.pre, sep |-> pad.sep, suf |-> pad.suf, req |-> None, res |-> None]

\* a store with an entry in each of its mappings
ParseStore ==
    hset(sadd(lpush(set(new, << "k" >>, << "5" >>).store,
                    << "j" >>, << "a" >>).store,
              << "j" >>, << "a" >>).store,
         << "k" >>, << "f" >>, << "a" >>).store

\* the inputs: words and whitespace, or whitespace alone
InitParse ==
    /\ build \in Builds
    /\ cbound = 128
    /\ store = ParseStore
    /\ nops = 0
    /\ ServerIdle
    /\ \/ \E kw \in FirstWords, casing \in Casings, argv \in ArgVectors,
             pad \in Paddings :
             last = Input(kw, Recase(kw, casing), argv, pad)
       \/ \E pad \in Paddings : last = Input(<< >>, << >>, << >>, pad)

\* parse_request(bytes)
ParseRequest ==
    /\ last.op = "input"
    /\ last' = [last EXCEPT !.op = "parse_request",
                            !.res = parse_request(InputBytes(last))]
    /\ nops' = nops + 1
    /\ UNCHANGED << build, cbound, store, serverVars >>

\* tokenize(bytes)
Tokenize ==
    /\ last.op = "input"
    /\ last' = [last EXCEPT !.op = "tokenize", !.res = tokenize(InputBytes(last))]
    /\ nops' = nops + 1
    /\ UNCHANGED << build, cbound, store, serverVars >>

\* execute(req, &mut store) for the request parse_request returned, as the
\* executor does with the request of a message (Quit is never sent to it)
ExecuteParsed ==
    /\ last.op = "parse_request"
    /\ last.res.tag = "Ok"
    /\ last.res.val.op # "Quit"
    /\ \E order \in ExecOrders(last.res.val, store) :
          LET o == execute(last.res.val, store, order)
          IN  /\ store' = o.store
              /\ last' = [last EXCEPT
                              !.op = "execute",
                              !.req = last.res.val,
                              !.res = IF o.panic
                                      THEN Panic("attempt to negate with overflow")
                                      ELSE [tag |-> "Response", body |-> o.body]]
    /\ nops' = nops + 1
    /\ UNCHANGED << build, cbound, serverVars >>

NextParse == ParseRequest \/ Tokenize \/ ExecuteParsed

SpecParse == InitParse /\ [][NextParse]_vars

(***************************************************************************)
(* The parser's contract                                                   *)
(***************************************************************************)

\* the message of an arity mismatch
ArityMessage(n, m) ==
    "Unexpected number of arguments. Expected " \o DigitChars[n + 1]
        \o ", got " \o DigitChars[m + 1]

\* the Request of a row of the table for exactly its operands
RequestOf(r, a) ==
    CASE r.shape = "none" -> [op |-> r.variant]
      [] r.shape = "key" -> [op |-> r.variant, key |-> a[1]]
      [] r.shape = "val" -> [op |-> r.variant, key |-> a[1], val |-> a[2]]
      [] r.shape = "field" -> [op |-> r.variant, key |-> a[1], field |-> a[2]]
      [] r.shape = "fieldval" ->
            [op |-> r.variant, key |-> a[1], field |-> a[2], val |-> a[3]]
      [] r.shape = "delta" ->
            [op |-> r.variant, key |-> a[1], delta |-> DeltaValue(a[2]).val]

\* C26: for PING and every data operator, a request with M arguments, M
\* other than the operand count N of the operator, parses to Invalid
\* "Unexpected number of arguments. Expected N, got M"; with exactly N
\* arguments it parses to the Request variant of the operator with the
\* arguments in order (for INCRBY and DECRBY: when the second is an integer).
C26_ArityRule ==
    last.op = "parse_request" =>
        \A r \in OperandTable :
            last.kw = r.word =>
                IF Len(last.argv) # r.n
                THEN last.res = Ok([op |-> "Invalid",
                                    error |-> ArityMessage(r.n, Len(last.argv))])
                ELSE (r.shape = "delta" => DeltaValue(last.argv[2]) # None) =>
                         last.res = Ok(RequestOf(r, last.argv))

\* hset in mixed case with two arguments was answered Expected 3, got 2
C26_Witness ==
    /\ last.op = "parse_request"
    /\ last.word = << "H", "s", "E", "t" >>
    /\ Len(last.argv) = 2
    /\ last.res = Ok([op |-> "Invalid",
                      error |-> "Unexpected number of arguments. Expected 3, got 2"])

\* C27: QUIT is a zero-operand operator under the arity rule: QUIT alone
\* parses to Quit, and QUIT followed by M >= 1 arguments parses to Invalid
\* "Unexpected number of arguments. Expected 0, got M", which does not end
\* the connection.
C27_QuitArity ==
    (last.op = "parse_request" /\ last.kw = WordQuit) =>
        IF Len(last.argv) = 0
        THEN last.res = Ok([op |-> "Quit"])
        ELSE last.res = Ok([op |-> "Invalid",
                            error |-> ArityMessage(0, Len(last.argv))])

\* the two operators with an integer operand
DeltaRows == { r \in OperandTable : r.shape = "delta" }

NonInteger(r) ==
    IF r.variant = "IncrBy" THEN "Value to increment by is a non-integer"
    ELSE "Value to decrement by is a non-integer"

\* C28: INCRBY and DECRBY with exactly two arguments parse the second as a
\* signed 64-bit decimal: if it is one, the request is IncrBy or DecrBy with
\* that delta; if not (other text, a decimal fraction, a number out of the
\* 64-bit range) it is Invalid "Value to increment by is a non-integer" or
\* "Value to decrement by is a non-integer"; with another number of
\* arguments the arity message is the answer whatever the second argument.
C28_DeltaCoercion ==
    last.op = "parse_request" =>
        \A r \in DeltaRows :
            last.kw = r.word =>
                IF Len(last.argv) # 2
                THEN last.res = Ok([op |-> "Invalid",
                                    error |-> ArityMessage(2, Len(last.argv))])
                ELSE IF DeltaValue(last.argv[2]) # None
                THEN last.res = Ok([op |-> r.variant, key |-> last.argv[1],
                                    delta |-> DeltaValue(last.argv[2]).val])
                ELSE last.res = Ok([op |-> "Invalid", error |-> NonInteger(r)])

\* decrby k 9223372036854775808 was answered with the non-integer message
C28_Witness ==
    /\ last.op = "parse_request"
    /\ last.word = << "d", "e", "c", "r", "b", "y" >>
    /\ last.argv = << << "k" >>,
                      i64_to_string(IntAdd(I64_MAX, Int64(FALSE, << 1 >>))) >>
    /\ last.res = Ok([op |-> "Invalid",
                      error |-> "Value to decrement by is a non-integer"])

\* the input with its first word in upper case
InUpperCase(in) == [in EXCEPT !.word = in.kw]

\* C29: the keyword is matched whatever its letter case and the arguments
\* are taken as they are: the Request of an input is the Request of the
\* input with the first word in upper case, the arguments are the fields of
\* the Request unchanged, and a keyword after the first word is an argument
\* like any other (GET SET is Get with the key SET).
C29_KeywordCaseOnly ==
    last.op = "parse_request" =>
        /\ last.res = parse_request(InputBytes(InUpperCase(last)))
        /\ \A r \in OperandTable :
              (last.kw = r.word /\ Len(last.argv) = r.n /\ r.shape # "delta") =>
                  last.res = Ok(RequestOf(r, last.argv))
        /\ (last.kw \in UnknownWords) = (last.res = Ok([op |-> "Invalid",
                                                       error |-> "Unrecognized operator"]))

\* gEt SET was parsed to Get with the key SET
C29_Witness ==
    /\ last.op = "parse_request"
    /\ last.word = << "G", "e", "T" >>
    /\ last.res = Ok([op |-> "Get", key |-> << "S", "E", "T" >>])

RECURSIVE ModeAfter(_, _, _)
\* where the lexer is after the characters of text from i on: between
\* tokens ("space"), in a token without quotation marks ("plain") or in a
\* quoted token whose right quotation mark it has not met ("quoted")
ModeAfter(text, i, mode) ==
    IF i > Len(text) THEN mode
    ELSE ModeAfter(text, i + 1,
            CASE mode = "quoted" -> IF text[i] = "\"" THEN "space" ELSE "quoted"
              [] mode = "plain" -> IF is_whitespace(text[i]) THEN "space" ELSE "plain"
              [] OTHER -> IF is_whitespace(text[i]) THEN "space"
                          ELSE IF text[i] = "\"" THEN "quoted"
                          ELSE "plain")

\* the text ends in a quoted token that has no right quotation mark
EndsInOpenQuote(text) == ModeAfter(text, 1, "space") = "quoted"

\* C30 as stated: whitespace and NUL characters before and after an input
\* change neither the operator nor the argument vector, in the lexer and in
\* parse_request, for any input.
C30_WhitespaceIdempotent ==
    /\ last.op = "parse_request" => last.res = parse_request(CoreBytes(last))
    /\ last.op = "tokenize" => last.res = tokenize(CoreBytes(last))

\* C30 amended: whitespace and NUL characters before and after an input
\* change neither the operator nor the argument vector in parse_request,
\* for any input, and in the lexer, for any input that does not end in a
\* quoted token without its right quotation mark.
C30_WhitespaceIdempotentClosed ==
    /\ last.op = "parse_request" => last.res = parse_request(CoreBytes(last))
    /\ (last.op = "tokenize" /\ ~EndsInOpenQuote(CoreBytes(last))) =>
           last.res = tokenize(CoreBytes(last))

\* the lexer was given GET "k" with whitespace and NUL on both sides and
\* found the operator Get and the argument k
C30_Witness ==
    /\ last.op = "tokenize"
    /\ last.pre = << " ", NUL >>
    /\ last.suf = << "\n", NUL >>
    /\ last.argv = << << "\"", "k", "\"" >> >>
    /\ last.res = Ok([op |-> Operator("StringOp", "Get"), argv |-> << << "k" >> >>])

(***************************************************************************)
(* SpecLex: tokenize and parse_request on inputs with quoted tokens.  An   *)
(* input is put together from tokens, each the text it stands for and the  *)
(* quotation marks it is written with.                                     *)
(***************************************************************************)

Token(body, quote) == [body |-> body, quote |-> quote]

\* the token as it is written: as it is, in quotation marks, or after a left
\* quotation mark alone
Spelled(t) ==
    CASE t.quote = "none" -> t.body
      [] t.quote = "closed" -> << "\"" >> \o t.body \o << "\"" >>
      [] t.quote = "open" -> << "\"" >> \o t.body

LexFirstWords == { << "G", "E", "T" >>, << "S", "E", "T" >>, WordQuit, WordFoo }

\* the tokens an argument may be
ArgTokens ==
    { Token(<< "k" >>, "none"), Token(<< "S", "E", "T" >>, "none"),
      Token(<< "k" >>, "closed"), Token(<< "a", " ", "b" >>, "closed"),
      Token(<< " ", "a", "\t", NUL, "\n", "b", " " >>, "closed"),
      Token(<< >>, "closed"),
      Token(<< "k" >>, "open"), Token(<< "a", " ", "b" >>, "open"),
      Token(<< >>, "open") }

MaxQuoted == 2

\* the token sequences of an input: a first word and up to MaxQuoted
\* arguments; only the last token may lack its right quotation mark
TokenSeqs ==
    { toks \in UNION { [1..n -> ArgTokens \cup
                                 { Token(Recase(w, c), q) :
                                     w \in LexFirstWords, c \in { "upper", "lower", "long" },
                                     q \in { "none", "closed", "open" } }] :
                         n \in 1..(MaxQuoted + 1) } :
        /\ toks[1] \notin ArgTokens
        /\ \A i \in 2..Len(toks) : toks[i] \in ArgTokens
        /\ \A i \in 1..(Len(toks) - 1) : toks[i].quote # "open" }

\* the word of LexFirstWords a first token spells
FirstWordOf(body) ==
    CHOOSE w \in LexFirstWords : \E c \in Casings : Recase(w, c) = body

InitLex ==
    /\ build \in Builds
    /\ cbound = 128
    /\ store = ParseStore
    /\ nops = 0
    /\ ServerIdle
    /\ \E toks \in TokenSeqs, pad \in Paddings :
          last = [op |-> "input", kw |-> FirstWordOf(toks[1].body),
                  word |-> Spelled(toks[1]),
                  argv |-> [i \in 1..(Len(toks) - 1) |-> Spelled(toks[i + 1])],
                  pre |-> pad.pre, sep |-> pad.sep, suf |-> pad.suf,
                  req |-> None, res |-> None, toks |-> toks]

SpecLex == InitLex /\ [][NextParse]_vars

(***************************************************************************)
(* Quoted tokens                                                           *)
(***************************************************************************)

\* the tokens of an input: the text each stands for, and for a last token
\* without its right quotation mark also everything up to the end of input
ExpectedTokens(in) ==
    [i \in 1..Len(in.toks) |->
        IF in.toks[i].quote = "open" THEN in.toks[i].body \o in.suf
        ELSE in.toks[i].body]

\* the operator of the first token
ExpectedOperator(in) ==
    IF in.toks[1].quote = "open" /\ in.suf # << >> THEN "Unrecognized"
    ELSE CASE in.kw = << "G", "E", "T" >> -> "Get"
           [] in.kw = << "S", "E", "T" >> -> "Set"
           [] in.kw = WordQuit -> "Quit"
           [] OTHER -> "Unrecognized"

\* C31: the lexer takes a token that begins with a quotation mark up to the
\* next quotation mark and emits the text between them, whitespace and all,
\* as one token; without a closing mark the token is everything up to the
\* end of input; a quoted first token is matched as an operator by the text
\* between the marks.
C31_QuotedTokens ==
    last.op = "tokenize" =>
        /\ last.res.tag = "Ok"
        /\ last.res.val.argv = Tail(ExpectedTokens(last))
        /\ last.res.val.op.op = ExpectedOperator(last)

\* the lexer was given "set", a quoted token of whitespace and letters and an
\* unclosed "a b followed by a blank, and found Set with the two arguments
C31_Witness ==
    /\ last.op = "tokenize"
    /\ last.word = << "\"", "s", "e", "t", "\"" >>
    /\ last.suf = << " " >>
    /\ last.res = Ok([op |-> Operator("StringOp", "Set"),
                      argv |-> << << " ", "a", "\t", NUL, "\n", "b", " " >>,
                                  << "a", " ", "b", " " >> >>])

\* C32: on the wire a double-quoted substring is one token: the request of
\* the connection task for a line is the Request of its tokens, so that
\* SET k "a b" is Set with the key k and the value a b.
C32_QuotedOnTheWire ==
    last.op = "parse_request" =>
        \A r \in OperandTable :
            (/\ last.kw = r.word
             /\ Len(last.toks) = r.n + 1
             /\ \A i \in DOMAIN last.toks : last.toks[i].quote # "open") =>
                last.res = Ok(RequestOf(r, Tail(ExpectedTokens(last))))

(***************************************************************************)
(* Inputs without a keyword                                                *)
(***************************************************************************)

\* C33: an input that is empty, or whitespace and NUL characters alone,
\* parses to NoOp, not to Invalid; the response to NoOp is the one character
\* NUL, and the store is as it was.
C33_BlankIsNoOp ==
    last.kw = << >> =>
        /\ last.op = "parse_request" => last.res = Ok([op |-> "NoOp"])
        /\ last.op = "execute" =>
              /\ last.req = [op |-> "NoOp"]
              /\ last.res = [tag |-> "Response", body |-> NUL]
              /\ store = ParseStore

\* an input of blank, NUL and newline alone was parsed and executed
C33_Witness ==
    /\ last.op = "execute"
    /\ last.kw = << >>
    /\ last.pre \o last.suf = << " ", NUL, "\n", NUL >>
    /\ last.res.body = NUL

\* C34: a first token that is none of the 19 keywords in any letter case
\* yields Invalid "Unrecognized operator", however many arguments follow it,
\* and the store is as it was after the request.
C34_UnrecognizedOperator ==
    last.kw \in UnknownWords =>
        /\ last.op = "parse_request" =>
              last.res = Ok([op |-> "Invalid", error |-> "Unrecognized operator"])
        /\ last.op = "execute" =>
              /\ last.req = [op |-> "Invalid", error |-> "Unrecognized operator"]
              /\ last.res.tag = "Response"
              /\ store = ParseStore

\* gEtS with three arguments was parsed and executed
C34_Witness ==
    /\ last.op = "execute"
    /\ last.word = << "G", "e", "T", "s" >>
    /\ Len(last.argv) = 3
    /\ last.req = [op |-> "Invalid", error |-> "Unrecognized operator"]

(***************************************************************************)
(* The end of the executor task                                            *)
(***************************************************************************)

\* C35: once no sender of the channel is left, the executor task leaves its
\* receive loop and ends cleanly (it does not end by a panic), and not
\* before it has executed every message that was queued.
C35_ExecutorExitsCleanly ==
    [][/\ (Senders = 0 /\ exstate \in { "recv", "exec" }) => exstate' # "panicked"
       /\ (Senders = 0 /\ exstate = "recv" /\ chan # << >>) => exstate' = "exec"
       /\ exstate' = "exited" => (chan' = << >> /\ ndone' = Len(sentlog'))]_vars

(***************************************************************************)
(* The configuration: config.rs (Config, DEFAULT, parse_kv, parse_config)  *)
(* and Server::new of entities.rs.  A config file is the sequence of its   *)
(* lines.                                                                  *)
(***************************************************************************)

Exit(code) == [tag |-> "Exit", code |-> code]

Config(b, cb) == [bind |-> b, cbound |-> cb]

\* const DEFAULT of config.rs; cbound is written as its decimal digits
DEFAULT == Config(<< "1", "2", "7", ".", "0", ".", "0", ".", "1" >>, << 1, 2, 8 >>)

\* the Server of Server::new before the config file is read
ServerDefault == Config(<< "1", "2", "7", ".", "0", ".", "0", ".", "1", ":", "6", "4", "6", "4" >>, << 1, 2, 8 >>)

U64MaxMag == << 1,8,4,4,6,7,4,4,0,7,3,7,0,9,5,5,1,6,1,5 >>

\* str::parse::<usize> on a 64-bit target: the digits of the value; the
\* text is read from the left and the first error ends the reading
parse_usize(cs) ==
    LET digits == IF cs # << >> /\ Head(cs) = "+" THEN Tail(cs) ELSE cs
        bad == { i \in 1..Len(digits) : ~IsDigit(digits[i]) }
        n == IF bad = {} THEN Len(digits)
             ELSE (CHOOSE i \in bad : \A j \in bad : i <= j) - 1
        mag == StripZeros([i \in 1..n |-> DigitVal(digits[i])])
    IN  IF cs = << >> THEN Err("Empty")
        ELSE IF digits = << >> THEN Err("InvalidDigit")
        ELSE IF n > 0 /\ ~MagLe(mag, U64MaxMag) THEN Err("PosOverflow")
        ELSE IF bad # {} THEN Err("InvalidDigit")
        ELSE Ok(mag)

RECURSIVE WordsFrom(_, _, _)
\* str::split_whitespace, reading text from i with the word under way
WordsFrom(text, i, acc) ==
    IF i > Len(text) THEN (IF acc = << >> THEN << >> ELSE << acc >>)
    ELSE IF text[i] \in WhiteChars
    THEN (IF acc = << >> THEN << >> ELSE << acc >>) \o WordsFrom(text, i + 1, << >>)
    ELSE WordsFrom(text, i + 1, Append(acc, text[i]))

split_whitespace(text) == WordsFrom(text, 1, << >>)

\* a file of the given lines, a path at which no file can be opened, and
\* the path of a directory (File::open succeeds, reading fails)
File(lines) == [readable |-> TRUE, isdir |-> FALSE, lines |-> lines]
Unreadable == [readable |-> FALSE, isdir |-> FALSE, lines |-> << >>]
Directory == [readable |-> TRUE, isdir |-> TRUE, lines |-> << >>]

\* the panic message of Result::unwrap on the io::Error of a line; the
\* grave accents of the message are written <U+0060>
LinePanicMessage(error) ==
    "called <U+0060>Result::unwrap()<U+0060> on an <U+0060>Err<U+0060> value: " \o error

InvalidDataError ==
    "Error { kind: InvalidData, message: \"stream did not contain valid UTF-8\" }"

IsADirectoryError ==
    "Os { code: 21, kind: IsADirectory, message: \"Is a directory\" }"

RECURSIVE KvFrom(_, _, _)
\* the loop of parse_kv over the lines from i on with the map kv: the map,
\* the exit on a line that is not two words, or the panic of line.unwrap()
\* on a line that is not UTF-8
KvFrom(lines, i, kv) ==
    IF i > Len(lines) THEN Ok(kv)
    ELSE LET text == lines[i]
             tup == split_whitespace(text)
         IN  IF ~IsUtf8(text) THEN Panic(LinePanicMessage(InvalidDataError))
             ELSE IF text # << >> /\ Head(text) = "#" THEN KvFrom(lines, i + 1, kv)
             ELSE IF Len(tup) = 0 THEN KvFrom(lines, i + 1, kv)
             ELSE IF Len(tup) # 2 THEN Exit(1)
             ELSE KvFrom(lines, i + 1, Put(kv, tup[1], tup[2]))

\* parse_kv(path) for the file at the path
parse_kv(file) ==
    IF ~file.readable THEN Exit(1)
    ELSE IF file.isdir THEN Panic(LinePanicMessage(IsADirectoryError))
    ELSE KvFrom(file.lines, 1, EmptyMap)

KeyBind == << "b", "i", "n", "d" >>
KeyCbound == << "c", "b", "o", "u", "n", "d" >>

\* the overriding of bind and cbound by the entries of the file
Override(config, kv) ==
    LET bound == IF Has(kv, KeyBind) THEN [config EXCEPT !.bind = kv[KeyBind]]
                 ELSE config
    IN  IF Has(kv, KeyCbound)
        THEN (IF parse_usize(kv[KeyCbound]).tag = "Ok"
              THEN Ok([bound EXCEPT !.cbound = parse_usize(kv[KeyCbound]).val])
              ELSE Exit(1))
        ELSE Ok(bound)

\* parse_config(path); path is None or Some(file)
parse_config(path) ==
    IF path = None THEN Ok(DEFAULT)
    ELSE IF parse_kv(path.val).tag # "Ok" THEN parse_kv(path.val)
    ELSE Override(DEFAULT, parse_kv(path.val).val)

\* Server::new(conf_path): bind and cbound of the Server
Server_new(conf_path) ==
    IF conf_path = None THEN Ok(ServerDefault)
    ELSE IF parse_kv(conf_path.val).tag # "Ok" THEN parse_kv(conf_path.val)
    ELSE Override(ServerDefault, parse_kv(conf_path.val).val)

(***************************************************************************)
(* SpecConfig: the configuration as a function of the config file.         *)
(***************************************************************************)

\* lines of a config file, with what each says
ConfLines ==
    { [text |-> << "b", "i", "n", "d", " ", "0", ".", "0", ".", "0", ".", "0", ":", "7", "0", "0", "0" >>,
       kind |-> "bind", val |-> << "0", ".", "0", ".", "0", ".", "0", ":", "7", "0", "0", "0" >>],
      [text |-> << "c", "b", "o", "u", "n", "d", " ", "6", "4" >>,
       kind |-> "cbound", val |-> << 6, 4 >>],
      [text |-> << " ", " ", "c", "b", "o", "u", "n", "d", "\t", "0", "0", "7", " " >>,
       kind |-> "cbound", val |-> << 7 >>],
      [text |-> << "b", "i", "n", "d", "\t", "l", "o", "c", "a", "l", "h", "o", "s", "t", ":", "1" >>,
       kind |-> "bind", val |-> << "l", "o", "c", "a", "l", "h", "o", "s", "t", ":", "1" >>],
      [text |-> << "#", " ", "b", "i", "n", "d", " ", "1", ".", "1", ".", "1", ".", "1", ":", "1" >>,
       kind |-> "skip", val |-> << >>],
      [text |-> << >>,
       kind |-> "skip", val |-> << >>],
      [text |-> << " ", " ", " " >>,
       kind |-> "skip", val |-> << >>],
      [text |-> << "h", "a", "s", "h", "e", "r", " ", "s", "i", "p" >>,
       kind |-> "other", val |-> << >>],
      [text |-> << "c", "b", "o", "u", "n", "d", " ", "a", "b", "c" >>,
       kind |-> "cbound_bad", val |-> << >>],
      [text |-> << "c", "b", "o", "u", "n", "d", " ", "9", "9", "9", "9", "9", "9", "9", "9", "9", "9", "9", "9", "9", "9", "9", "9", "9", "9", "9", "9" >>,
       kind |-> "cbound_bad", val |-> << >>],
      [text |-> << "c", "b", "o", "u", "n", "d", "<U+00A0>", "9", "<U+000B>" >>,
       kind |-> "cbound", val |-> << 9 >>],
      [text |-> << "c", "b", "o", "u", "n", "d", " ", "+" >>,
       kind |-> "cbound_bad", val |-> << >>],
      [text |-> << "b", "i", "n", "d", " ", BadByte >>,
       kind |-> "not_utf8", val |-> << >>],
      [text |-> << "#", " ", LeadByteC3 >>,
       kind |-> "not_utf8", val |-> << >>],
      [text |-> << "b", "i", "n", "d" >>,
       kind |-> "malformed", val |-> << >>],
      [text |-> << "b", "i", "n", "d", " ", "a", " ", "b" >>,
       kind |-> "malformed", val |-> << >>] }

MaxConfLines == 3

\* config files: up to MaxConfLines lines each
ConfFiles ==
    UNION { [1..n -> { l.text : l \in ConfLines }] : n \in 0..MaxConfLines }

InitConfig ==
    /\ build \in Builds
    /\ cbound = 128
    /\ store = new
    /\ nops = 0
    /\ ServerIdle
    /\ \E path \in { None, Some(Unreadable), Some(Directory) }
                        \cup { Some(File(f)) : f \in ConfFiles } :
          last = [op |-> "input", path |-> path, res |-> None]

\* parse_config(path)
ParseConfig ==
    /\ last.op = "input"
    /\ last' = [last EXCEPT !.op = "parse_config", !.res = parse_config(last.path)]
    /\ nops' = nops + 1
    /\ UNCHANGED << build, cbound, store, serverVars >>

\* Server::new(conf_path)
NewServer ==
    /\ last.op = "input"
    /\ last' = [last EXCEPT !.op = "Server::new", !.res = Server_new(last.path)]
    /\ nops' = nops + 1
    /\ UNCHANGED << build, cbound, store, serverVars >>

NextConfig == ParseConfig \/ NewServer

SpecConfig == InitConfig /\ [][NextConfig]_vars

(***************************************************************************)
(* The configuration's contract                                            *)
(***************************************************************************)

\* what a line of a config file says
LineOf(text) == CHOOSE l \in ConfLines : l.text = text

\* the value of the last line of the file of one of the kinds, if any
LastValue(lines, kinds) ==
    LET at == { i \in 1..Len(lines) : LineOf(lines[i]).kind \in kinds }
    IN  IF at = { } THEN None
        ELSE Some(LineOf(lines[CHOOSE i \in at : \A j \in at : j <= i]).val)

DefaultBind ==
    << "1", "2", "7", ".", "0", ".", "0", ".", "1", ":", "6", "4", "6", "4" >>

\* the bind and the cbound the claim expects for a file
ExpectedConfig(lines) ==
    [bind |-> IF LastValue(lines, { "bind" }) = None THEN DefaultBind
              ELSE LastValue(lines, { "bind" }).val,
     cbound |-> IF LastValue(lines, { "cbound" }) = None THEN << 1, 2, 8 >>
                ELSE LastValue(lines, { "cbound" }).val]

\* the file is well-formed: every line is text, and a comment, blank or two
\* words, and the cbound entry that counts is an integer
WellFormed(lines) ==
    /\ \A i \in 1..Len(lines) : LineOf(lines[i]).kind \notin { "malformed", "not_utf8" }
    /\ LastValue(lines, { "cbound", "cbound_bad" }) = LastValue(lines, { "cbound" })

\* C36: with no config file the server uses bind = 127.0.0.1:6464 and
\* cbound = 128; with a config file, a bind or a cbound entry replaces its
\* default and a key the file does not mention keeps its default.
C36_ConfigDefaults ==
    last.op \in { "parse_config", "Server::new" } =>
        IF last.path = None
        THEN last.res = Ok([bind |-> DefaultBind, cbound |-> << 1, 2, 8 >>])
        ELSE (/\ last.path.val.readable
              /\ ~last.path.val.isdir
              /\ WellFormed(last.path.val.lines)) =>
                 last.res = Ok(ExpectedConfig(last.path.val.lines))

(***************************************************************************)
(* Concurrent increments                                                   *)
(***************************************************************************)

IncrK == [op |-> "Incr", key |-> << "k" >>]
SetK5 == [op |-> "Set", key |-> << "k" >>, val |-> << "5" >>]

\* the first message set k to 5 and every later one is an INCR of k or a
\* request that touches no key (an invalid one, or the NoOp of a read that
\* delivered no byte)
IncrementsOnly ==
    /\ Len(sentlog) >= 1
    /\ sentlog[1].req = SetK5
    /\ \A i \in 2..Len(sentlog) :
          sentlog[i].req = IncrK \/ sentlog[i].req.op \in { "Invalid", "NoOp" }

\* the places of the INCR requests the executor has executed
IncrPlaces == SelectSeq([i \in 1..ndone |-> i], LAMBDA i : sentlog[i].req = IncrK)

\* the number of INCR requests the executor has executed
IncrsDone == Len(IncrPlaces)

\* the integer responses connection c has been handed
IntegerBodies(c) ==
    SelectSeq(Delivered(c),
              LAMBDA b : b \in { "(integer) " \o DigitChars[d + 1] : d \in 0..9 })

\* the responses the executor has given to the INCR requests of connection c
IncrRepliesTo(c) ==
    LET places == SelectSeq(IncrPlaces, LAMBDA i : sentlog[i].c = c)
    IN  [j \in 1..Len(places) |-> replies[places[j]]]

\* C37: no update is lost: when k holds 5 and N INCR requests of k from any
\* connections in any interleaving have been executed, and nothing else
\* touches k, the value of k is 5 + N and the N responses are the N values
\* 5 + 1 .. 5 + N, each once: the executor's response to the j-th INCR is
\* 5 + j, whatever the peers have done, and what a connection has been
\* handed of them is its own, each at most once (all of them while its peer
\* is there).
C37_NoLostUpdates ==
    (IncrementsOnly /\ ndone >= 1) =>
        /\ StringAt(store, << "k" >>) = Some(<< DigitChars[5 + IncrsDone + 1] >>)
        /\ Len(replies) = ndone
        /\ \A j \in 1..IncrsDone :
              replies[IncrPlaces[j]] = "(integer) " \o DigitChars[5 + j + 1]
        /\ \A c \in Clients :
              /\ WrittenFrom(IntegerBodies(c), IncrRepliesTo(c))
              /\ sock[c] = "open" => IntegerBodies(c) = IncrRepliesTo(c)

\* two connections have each been answered an INCR of k, which holds 7; the
\* peer of one of them has closed, its responses were written whole, and
\* no read has met the end of its stream
C37_Witness ==
    /\ IncrementsOnly
    /\ ndone = 3
    /\ sentlog[2].req = IncrK /\ sentlog[3].req = IncrK
    /\ sentlog[2].c # sentlog[3].c
    /\ \A c \in Clients : Len(out[c]) >= 1
    /\ \E c \in Clients : sock[c] = "closed" /\ ~eofseen[c]
    /\ StringAt(store, << "k" >>) = Some(<< "7" >>)

(***************************************************************************)
(* What an operation leaves alone                                          *)
(***************************************************************************)

ReadOnly == { "Ping", "Get", "SIsMember", "SMembers", "HGet", "NoOp", "Invalid" }

\* C38: the execution of Ping, Get, SIsMember, SMembers, HGet, NoOp or
\* Invalid leaves every mapping of the store as it was, whether the key is
\* there or not: a read makes no key and no container.
C38_ReadsChangeNothing ==
    [][(nops' = nops + 1 /\ last'.op = "execute" /\ last'.args[1].op \in ReadOnly) =>
          (last'.res.tag = "Response" /\ store' = store)]_vars

\* a SIsMember of a key without a set was executed on a store that has a
\* string and a list, and no set was made
C38_Witness ==
    /\ last.op = "execute"
    /\ last.args[1].op = "SIsMember"
    /\ ~Has(store.sets, last.args[1].key)
    /\ store.strings # EmptyMap
    /\ store.lists # EmptyMap

\* the entry of a mapping at a key, None if there is none
EntryAt(m, k) == IF Has(m, k) THEN Some(m[k]) ELSE None

\* C39: an operation of the store on the key K changes at most the entry of
\* K in the mapping of its own type: the entries of the other keys, and the
\* three other mappings whole, are after it what they were before.
C39_OnlyOwnEntry ==
    [][(nops' = nops + 1 /\ last'.op # "execute") =>
          /\ \A t \in TypeMaps \ { OpType(last'.op) } : store'[t] = store[t]
          /\ store'.namespace = store.namespace
          /\ \A k \in Keys \ { last'.key } :
                EntryAt(store'[OpType(last'.op)], k) = EntryAt(store[OpType(last'.op)], k)
          /\ DOMAIN store'[OpType(last'.op)]
                \subseteq DOMAIN store[OpType(last'.op)] \cup { last'.key }]_vars

\* an lpush on a key that holds a string left the string, and the list of
\* the other key, as they were
C39_Witness ==
    /\ last.op = "lpush"
    /\ Has(store.strings, last.key)
    /\ \E k \in Keys \ { last.key } : Has(store.lists, k)

(***************************************************************************)
(* The read buffer                                                         *)
(***************************************************************************)

\* the bytes the read delivered, as the buffer holds them
BytesRead(b) == SubSeq(b.data, 1, b.n)

\* C40: the request a connection task parses in an iteration of its loop is
\* the request of the bytes this iteration's read delivered, and of nothing
\* else: the buffer is all zeros behind them, the task goes on as
\* parse_request of these bytes alone says, and a read that delivered no
\* byte gives NoOp.
C40_RequestOfThisReadOnly ==
    [][\A c \in Clients :
          (hpc[c] = "read" /\ hpc'[c] # "read") =>
              LET parsed == parse_request(BytesRead(buf'[c]))
              IN  /\ \A i \in (buf'[c].n + 1)..BufLen : buf'[c].data[i] = NUL
                  /\ hpc'[c] = IF parsed.tag = "Panic" THEN "panicked"
                               ELSE IF parsed.val = [op |-> "Quit"] THEN "done"
                               ELSE "send"
                  /\ hpc'[c] = "send" => hreq'[c] = parsed.val
                  /\ buf'[c].n = 0 =>
                        (hpc'[c] = "send" /\ hreq'[c] = [op |-> "NoOp"])]_vars

\* a connection sent the long DECRBY request, was answered, and then read
\* the short INCR request, which it parsed as Incr of k; another connection
\* read the end of its stream and parsed NoOp
C40_Witness ==
    \E c \in Clients :
        /\ \E i \in 1..Len(sentlog) :
              sentlog[i].c = c /\ sentlog[i].req.op = "DecrBy"
        /\ hpc[c] = "send"
        /\ BytesRead(buf[c]) = LineIncr
        /\ hreq[c] = [op |-> "Incr", key |-> << "k" >>]
        /\ \E d \in Clients \ { c } :
              /\ eofseen[d]
              /\ buf[d].n = 0
              /\ hpc[d] = "send"
              /\ hreq[d] = [op |-> "NoOp"]

====
